---- MODULE Spec2Model ----
(***************************************************************************)
(* German30 trading simulator: the trade outcome evaluator (models/trade), *)
(* the practice session (models/session), the request handlers that drive  *)
(* them (routes/api) and the candle cache (models/candle, data/fetcher).   *)
(*                                                                         *)
(* Prices are integer-valued points.  On integer-valued prices of this     *)
(* size Python's float arithmetic (+, -, /, * 100, round(x, 2)) is exact,  *)
(* so the integer operators below compute what the code computes.          *)
(* Timestamps are minutes, all in UTC.  A nullable column holds None       *)
(* (the empty tuple) or Some(v) (the one-element tuple).                   *)
(***************************************************************************)
EXTENDS Integers, Sequences, FiniteSets, Bags, TLC

VARIABLES
    sessions,   \* table sessions: sequence of rows, id = index
    trades,     \* table trades: sequence of rows, id = index
    candles,    \* table candles: a bag of rows (no uniqueness constraint)
    request,    \* the operation last invoked, with its inputs
    response,   \* what that operation returned
    procs       \* concurrent fetch_and_cache calls: per process its position and locals

vars == <<sessions, trades, candles, request, response, procs>>

(***************************************************************************)
(* Bounds of the model.                                                    *)
(***************************************************************************)
MaxBars == 3          \* longest candle list handed to determine_outcome
MaxTrades == 2        \* trades entered through the API
MaxDates == 2         \* longest playlist of a session
MaxApiBars == 2       \* longest 3m slice a replay returns to an outcome request
MaxCacheBars == 2     \* rows of a DataFrame handed to cache_data
MaxAggBars == 4       \* 1-minute slots a DataFrame handed to the aggregator spans
MaxFetchBars == 3     \* bars the provider returns for one download
MaxCalendarDay == 8   \* last day number a date range starts or ends on
MaxStatTrades == 4    \* trades counted into the session whose statistics are read
MaxAdvanceDates == 3  \* longest playlist of the session advanced by concurrent requests
MaxAdvances == 2      \* next_scenario requests one thread serves

(***************************************************************************)
(* config.py                                                               *)
(***************************************************************************)
STOP_LOSS_POINTS == 18
RISK_REWARD_RATIO == 3

None == <<>>
Some(v) == <<v>>
NoOutcome == "None"

Directions == {"long", "short"}
EntryPrices == {100, 101}
StopDistances == {STOP_LOSS_POINTS, 9}
RewardMultiples == {RISK_REWARD_RATIO, 2}

(***************************************************************************)
(* Candles.  Lows and Highs are chosen around the levels of a trade        *)
(* entered at 100 or 101: each stop and target is missed, touched exactly  *)
(* and overshot by some bar.                                               *)
(***************************************************************************)
Lows == {46, 82, 83}
Highs == {117, 118, 155}

Candle(ts, o, h, l, c, v, tf) ==
    [timestamp |-> ts, open |-> o, high |-> h, low |-> l, close |-> c,
     volume |-> v, timeframe |-> tf]

\* The i-th 3-minute bar of a day starts at minute 3 * i.
BarAt(i, l, h) == Candle(3 * i, l, h, l, h, 1, "3m")

BarShapes == Lows \X Highs

CandleSeqs(n) ==
    UNION {{[i \in 1..k |-> BarAt(i, f[i][1], f[i][2])] : f \in [1..k -> BarShapes]}
           : k \in 0..n}

(***************************************************************************)
(* models/trade.py                                                         *)
(***************************************************************************)
NewTrade(session_id, timestamp, direction, entry_price) ==
    [session_id |-> session_id, entry_timestamp |-> timestamp,
     direction |-> direction, entry_price |-> entry_price,
     stop_loss |-> None, take_profit |-> None,
     exit_price |-> None, exit_timestamp |-> None,
     outcome |-> NoOutcome, pnl_points |-> 0, pnl_percentage |-> 0]

CalculateSlTpSwapped(trade, stop_loss_points, risk_reward_ratio) ==
    LET take_profit_points == stop_loss_points * risk_reward_ratio IN
    IF trade.direction = "long"
    THEN [trade EXCEPT !.stop_loss = Some(trade.entry_price - stop_loss_points),
                       !.take_profit = Some(trade.entry_price + take_profit_points)]
    ELSE IF trade.direction = "short"
    THEN [trade EXCEPT !.stop_loss = Some(trade.entry_price - stop_loss_points),
                       !.take_profit = Some(trade.entry_price + take_profit_points)]
    ELSE trade

CalculateSlTp(trade, stop_loss_points, risk_reward_ratio) ==
    LET take_profit_points == stop_loss_points * risk_reward_ratio IN
    IF trade.direction = "long"
    THEN [trade EXCEPT !.stop_loss = Some(trade.entry_price - stop_loss_points),
                       !.take_profit = Some(trade.entry_price + take_profit_points)]
    ELSE IF trade.direction = "short"
    THEN [trade EXCEPT !.stop_loss = Some(trade.entry_price + stop_loss_points),
                       !.take_profit = Some(trade.entry_price - take_profit_points)]
    ELSE trade

CreateTrade(session_id, timestamp, direction, entry_price, stop_loss_points, risk_reward_ratio) ==
    CalculateSlTp(NewTrade(session_id, timestamp, direction, entry_price),
                  stop_loss_points, risk_reward_ratio)

\* The dict determine_outcome returns once a level is hit.
OutcomeDetails(trade) ==
    [outcome |-> trade.outcome, exit_price |-> trade.exit_price[1],
     exit_timestamp |-> trade.exit_timestamp[1], pnl_points |-> trade.pnl_points]

Pending == [outcome |-> "pending"]

ExitMovingStop(trade, candle, outcome, level, pnl, risk) ==
    [trade EXCEPT !.outcome = outcome,
                  !.exit_price = Some(level),
                  !.exit_timestamp = Some(candle.timestamp),
                  !.stop_loss = Some(trade.entry_price),
                  !.pnl_points = pnl,
                  !.pnl_percentage = (pnl \div risk) * 100]

\* One branch body of determine_outcome: the assignments made when a level is hit.
\* pnl and risk are the two direction-dependent expressions of that branch.
Exit(trade, candle, outcome, level, pnl, risk) ==
    [trade EXCEPT !.outcome = outcome,
                  !.exit_price = Some(level),
                  !.exit_timestamp = Some(candle.timestamp),
                  !.pnl_points = pnl,
                  !.pnl_percentage = (pnl \div risk) * 100]

LongLoss(trade, candle) ==
    LET sl == trade.stop_loss[1] IN
    Exit(trade, candle, "loss", sl, sl - trade.entry_price, trade.entry_price - sl)

LongWin(trade, candle) ==
    LET tp == trade.take_profit[1] IN
    Exit(trade, candle, "win", tp, tp - trade.entry_price,
         trade.entry_price - trade.stop_loss[1])

ShortLoss(trade, candle) ==
    LET sl == trade.stop_loss[1] IN
    Exit(trade, candle, "loss", sl, trade.entry_price - sl, sl - trade.entry_price)

ShortWinSignFlipped(trade, candle) ==
    LET tp == trade.take_profit[1] IN
    Exit(trade, candle, "win", tp, tp - trade.entry_price,
         trade.stop_loss[1] - trade.entry_price)

ShortWin(trade, candle) ==
    LET tp == trade.take_profit[1] IN
    Exit(trade, candle, "win", tp, trade.entry_price - tp,
         trade.stop_loss[1] - trade.entry_price)

\* The body of the loop of determine_outcome for one candle: whether a branch
\* returned (hit), and the trade as that branch leaves it.
Hit(trade) == [hit |-> TRUE, trade |-> trade]
Miss(trade) == [hit |-> FALSE, trade |-> trade]

CheckCandleTargetFirst(trade, candle) ==
    IF trade.direction = "long"
    THEN IF candle.high >= trade.take_profit[1] THEN Hit(LongWin(trade, candle))
         ELSE IF candle.low <= trade.stop_loss[1] THEN Hit(LongLoss(trade, candle))
         ELSE Miss(trade)
    ELSE IF trade.direction = "short"
    THEN IF candle.low <= trade.take_profit[1] THEN Hit(ShortWin(trade, candle))
         ELSE IF candle.high >= trade.stop_loss[1] THEN Hit(ShortLoss(trade, candle))
         ELSE Miss(trade)
    ELSE Miss(trade)

CheckCandleExtreme(trade, candle) ==
    IF trade.direction = "long"
    THEN IF candle.low <= trade.stop_loss[1]
         THEN Hit([LongLoss(trade, candle) EXCEPT !.exit_price = Some(candle.low)])
         ELSE IF candle.high >= trade.take_profit[1]
         THEN Hit([LongWin(trade, candle) EXCEPT !.exit_price = Some(candle.high)])
         ELSE Miss(trade)
    ELSE IF trade.direction = "short"
    THEN IF candle.high >= trade.stop_loss[1]
         THEN Hit([ShortLoss(trade, candle) EXCEPT !.exit_price = Some(candle.high)])
         ELSE IF candle.low <= trade.take_profit[1]
         THEN Hit([ShortWin(trade, candle) EXCEPT !.exit_price = Some(candle.low)])
         ELSE Miss(trade)
    ELSE Miss(trade)

CheckCandle(trade, candle) ==
    IF trade.direction = "long"
    THEN IF candle.low <= trade.stop_loss[1] THEN Hit(LongLoss(trade, candle))
         ELSE IF candle.high >= trade.take_profit[1] THEN Hit(LongWin(trade, candle))
         ELSE Miss(trade)
    ELSE IF trade.direction = "short"
    THEN IF candle.high >= trade.stop_loss[1] THEN Hit(ShortLoss(trade, candle))
         ELSE IF candle.low <= trade.take_profit[1] THEN Hit(ShortWin(trade, candle))
         ELSE Miss(trade)
    ELSE Miss(trade)

RECURSIVE ScanCandlesClosingAtEnd(_, _, _)
ScanCandlesClosingAtEnd(trade, cs, i) ==
    IF i > Len(cs)
    THEN [trade |-> [trade EXCEPT !.outcome = "scratch"], result |-> Pending,
          scanned |-> cs]
    ELSE LET step == CheckCandle(trade, cs[i]) IN
         IF step.hit
         THEN [trade |-> step.trade, result |-> OutcomeDetails(step.trade),
               scanned |-> SubSeq(cs, 1, i)]
         ELSE ScanCandlesClosingAtEnd(trade, cs, i + 1)

\* A scan that reads the candles from the last one back to the first.
RECURSIVE ScanCandlesFromEnd(_, _, _)
ScanCandlesFromEnd(trade, cs, i) ==
    IF i > Len(cs)
    THEN [trade |-> trade, result |-> Pending, scanned |-> cs]
    ELSE LET step == CheckCandle(trade, cs[Len(cs) + 1 - i]) IN
         IF step.hit
         THEN [trade |-> step.trade, result |-> OutcomeDetails(step.trade),
               scanned |-> SubSeq(cs, 1, Len(cs) + 1 - i)]
         ELSE ScanCandlesFromEnd(trade, cs, i + 1)

\* for candle in candles: ... return on the first hit; 'pending' after the loop.
\* scanned: the candles the loop has read when it returns.
RECURSIVE ScanCandles(_, _, _)
ScanCandles(trade, cs, i) ==
    IF i > Len(cs)
    THEN [trade |-> trade, result |-> Pending, scanned |-> cs]
    ELSE LET step == CheckCandle(trade, cs[i]) IN
         IF step.hit
         THEN [trade |-> step.trade, result |-> OutcomeDetails(step.trade),
               scanned |-> SubSeq(cs, 1, i)]
         ELSE ScanCandles(trade, cs, i + 1)

DetermineOutcome(trade, cs) == ScanCandles(trade, cs, 1)

(***************************************************************************)
(* routes/api.py, enter_trade: the trade it builds from the request.       *)
(***************************************************************************)
EnterTradeCreate(session_id, timestamp, direction, entry_price) ==
    CreateTrade(session_id, timestamp, direction, entry_price,
                STOP_LOSS_POINTS, RISK_REWARD_RATIO)

(***************************************************************************)
(* SpecEval: Trade.create_trade followed by Trade.determine_outcome on one *)
(* trade, over every direction, entry price, stop distance, reward         *)
(* multiple and candle list of the bounded sets.  The trade is built       *)
(* either by a direct create_trade call or the way enter_trade builds it.  *)
(***************************************************************************)
NoResponse == [op |-> "none"]
NoRequest == [op |-> "none"]
NoProcs == <<>>

EvalInit ==
    /\ \E direction \in Directions, entry_price \in EntryPrices,
          via \in {"create_trade", "enter_trade"},
          sd \in StopDistances, rr \in RewardMultiples, cs \in CandleSeqs(MaxBars) :
          /\ via = "enter_trade" => sd = STOP_LOSS_POINTS /\ rr = RISK_REWARD_RATIO
          /\ trades = << IF via = "enter_trade"
                         THEN EnterTradeCreate(1, 0, direction, entry_price)
                         ELSE CreateTrade(1, 0, direction, entry_price, sd, rr) >>
          /\ request = [op |-> "create_trade", via |-> via, direction |-> direction,
                        entry_price |-> entry_price, stop_loss_points |-> sd,
                        risk_reward_ratio |-> rr, candles |-> cs]
    /\ response = NoResponse
    /\ sessions = <<>>
    /\ candles = EmptyBag
    /\ procs = NoProcs

EvalDetermineOutcome ==
    /\ response = NoResponse
    /\ LET r == DetermineOutcome(trades[1], request.candles) IN
          /\ trades' = <<r.trade>>
          /\ response' = [op |-> "determine_outcome", before |-> trades[1],
                          result |-> r.result]
    /\ UNCHANGED <<sessions, candles, request, procs>>

EvalNext == EvalDetermineOutcome

SpecEval == EvalInit /\ [][EvalNext]_vars

(***************************************************************************)
(* The levels of a trade and what it means for a bar to touch them, as the *)
(* specification words them.                                               *)
(***************************************************************************)
StopOf(t) == t.stop_loss[1]
TargetOf(t) == t.take_profit[1]

TouchesStop(t, c) ==
    \/ t.direction = "long" /\ c.low <= StopOf(t)
    \/ t.direction = "short" /\ c.high >= StopOf(t)

TouchesTarget(t, c) ==
    \/ t.direction = "long" /\ c.high >= TargetOf(t)
    \/ t.direction = "short" /\ c.low <= TargetOf(t)

Touched(t, cs) == {i \in 1..Len(cs) : TouchesStop(t, cs[i]) \/ TouchesTarget(t, cs[i])}

FirstTouched(t, cs) == CHOOSE i \in Touched(t, cs) : \A j \in Touched(t, cs) : i <= j

Evaluated == response.op = "determine_outcome"

\* C1: when the first bar that touches a level touches both the stop-loss and the
\* take-profit, the trade resolves to 'loss' at the stop-loss, for either direction.
C1_StopLossPriorityOnTie ==
    Evaluated =>
        LET t0 == response.before
            cs == request.candles
        IN  Touched(t0, cs) # {} =>
                LET c == cs[FirstTouched(t0, cs)] IN
                (TouchesStop(t0, c) /\ TouchesTarget(t0, c)) =>
                    /\ trades[1].outcome = "loss"
                    /\ trades[1].exit_price = Some(StopOf(t0))
                    /\ response.result.outcome = "loss"
                    /\ response.result.exit_price = StopOf(t0)

C1_Witness ==
    /\ Evaluated
    /\ Touched(response.before, request.candles) # {}
    /\ LET c == request.candles[FirstTouched(response.before, request.candles)] IN
          /\ TouchesStop(response.before, c)
          /\ TouchesTarget(response.before, c)
    /\ FirstTouched(response.before, request.candles) > 1
    /\ trades[1].direction = "short"
    /\ trades[1].outcome = "loss"

\* C2: the earliest bar that satisfies the stop or the target condition decides the
\* outcome: loss if it touches the stop, win otherwise; the exit timestamp is that
\* bar's, the exit price is exactly the level, and the bars after it change nothing.
C2_FirstTouchResolution ==
    Evaluated =>
        LET t0 == response.before
            cs == request.candles
            t == trades[1]
        IN  Touched(t0, cs) # {} =>
                LET i == FirstTouched(t0, cs) IN
                /\ t.outcome = (IF TouchesStop(t0, cs[i]) THEN "loss" ELSE "win")
                /\ t.exit_timestamp = Some(cs[i].timestamp)
                /\ t.outcome = "loss" => t.exit_price = Some(StopOf(t0))
                /\ t.outcome = "win" => t.exit_price = Some(TargetOf(t0))
                /\ response.result.outcome = t.outcome
                /\ response.result.exit_price = t.exit_price[1]
                /\ response.result.exit_timestamp = cs[i].timestamp
                /\ DetermineOutcome(t0, SubSeq(cs, 1, i)).trade = t

C2_Witness ==
    /\ Evaluated
    /\ Touched(response.before, request.candles) # {}
    /\ LET i == FirstTouched(response.before, request.candles)
           c == request.candles[i]
       IN  /\ i = 2
           /\ Len(request.candles) = 3
           /\ trades[1].outcome = "win"
           /\ trades[1].direction = "long"
           /\ c.high > TargetOf(trades[1])
           /\ TouchesStop(response.before, request.candles[3])

\* C5: a long trade is created with stop = entry - stop_distance and target =
\* entry + stop_distance * reward_multiple, a short trade with stop = entry +
\* stop_distance and target = entry - stop_distance * reward_multiple; a trade built
\* the way enter_trade builds it uses stop_distance 18 and reward_multiple 3.
C5_StopTargetDerivation ==
    LET t == IF Evaluated THEN response.before ELSE trades[1]
        sd == IF request.via = "enter_trade" THEN 18 ELSE request.stop_loss_points
        rr == IF request.via = "enter_trade" THEN 3 ELSE request.risk_reward_ratio
    IN  /\ t.direction = "long" =>
            /\ t.stop_loss = Some(t.entry_price - sd)
            /\ t.take_profit = Some(t.entry_price + sd * rr)
        /\ t.direction = "short" =>
            /\ t.stop_loss = Some(t.entry_price + sd)
            /\ t.take_profit = Some(t.entry_price - sd * rr)
        /\ t.entry_price = request.entry_price
        /\ t.direction = request.direction

C5_Witness ==
    /\ ~Evaluated
    /\ request.via = "enter_trade"
    /\ trades[1].direction = "short"
    /\ trades[1].entry_price = 100
    /\ trades[1].stop_loss = Some(118)
    /\ trades[1].take_profit = Some(46)

Abs(x) == IF x < 0 THEN -x ELSE x

\* C7: a loss has pnl_points = -stop_distance and pnl_percentage = -100, a win has
\* pnl_points = stop_distance * reward_multiple and pnl_percentage = 100 *
\* reward_multiple; pnl_points is exit - entry (long) or entry - exit (short) and
\* pnl_percentage is pnl_points / |entry - stop| * 100.
C7_ResolvedPnl ==
    (Evaluated /\ trades[1].outcome \in {"win", "loss"}) =>
        LET t == trades[1]
            sd == request.stop_loss_points
            rr == request.risk_reward_ratio
        IN  /\ t.outcome = "loss" => t.pnl_points = -sd /\ t.pnl_percentage = -100
            /\ t.outcome = "win" => t.pnl_points = sd * rr /\ t.pnl_percentage = 100 * rr
            /\ t.direction = "long" => t.pnl_points = t.exit_price[1] - t.entry_price
            /\ t.direction = "short" => t.pnl_points = t.entry_price - t.exit_price[1]
            /\ t.pnl_percentage * Abs(t.entry_price - StopOf(t)) = t.pnl_points * 100
            /\ response.result.pnl_points = t.pnl_points

C7_Witness ==
    /\ Evaluated
    /\ trades[1].direction = "short"
    /\ trades[1].outcome = "win"
    /\ trades[1].pnl_points = 54
    /\ trades[1].pnl_percentage = 300

(***************************************************************************)
(* models/session.py                                                       *)
(***************************************************************************)
TIME_WINDOWS == {"morning_1", "morning_2", "afternoon_1", "afternoon_2"}
MAX_DATES_PER_SESSION == 50

RECURSIVE SeqMin(_)
SeqMin(q) == IF Len(q) = 1 THEN q[1]
             ELSE LET m == SeqMin(Tail(q)) IN IF q[1] <= m THEN q[1] ELSE m

RECURSIVE SeqMax(_)
SeqMax(q) == IF Len(q) = 1 THEN q[1]
             ELSE LET m == SeqMax(Tail(q)) IN IF q[1] >= m THEN q[1] ELSE m

CreateSession(date_range_start, date_range_end, time_window, dates_list) ==
    [date_range_start |-> date_range_start, date_range_end |-> date_range_end,
     time_window |-> time_window, playlist |-> dates_list,
     current_date_index |-> 0,
     total_trades |-> 0, winning_trades |-> 0, losing_trades |-> 0,
     scratch_trades |-> 0, total_pnl |-> 0, is_completed |-> FALSE]

\* An advance that marks the session completed on arrival at the last date.
AdvanceToNextDateEager(session) ==
    IF session.current_date_index < Len(session.playlist) - 1
    THEN [session |-> [session EXCEPT !.current_date_index = @ + 1,
                                      !.is_completed = (session.current_date_index + 1 = Len(session.playlist) - 1)],
          has_next |-> TRUE]
    ELSE [session |-> [session EXCEPT !.is_completed = TRUE], has_next |-> FALSE]

\* An advance that reports the end of the playlist without marking the session.
AdvanceToNextDateUnmarked(session) ==
    IF session.current_date_index < Len(session.playlist) - 1
    THEN [session |-> [session EXCEPT !.current_date_index = @ + 1], has_next |-> TRUE]
    ELSE [session |-> session, has_next |-> FALSE]

\* The session after advance_to_next_date, and the value it returns.
AdvanceToNextDate(session) ==
    IF session.current_date_index < Len(session.playlist) - 1
    THEN [session |-> [session EXCEPT !.current_date_index = @ + 1], has_next |-> TRUE]
    ELSE [session |-> [session EXCEPT !.is_completed = TRUE], has_next |-> FALSE]

\* A count that files every loss under scratch_trades.
UpdateStatisticsLossAsScratch(session, trade) ==
    [session EXCEPT
        !.total_trades = @ + 1,
        !.winning_trades = IF trade.outcome = "win" THEN @ + 1 ELSE @,
        !.scratch_trades = IF trade.outcome = "loss" THEN @ + 1 ELSE @,
        !.total_pnl = @ + trade.pnl_points]

\* A count that leaves losing trades out of total_trades.
UpdateStatisticsWinsOnly(session, trade) ==
    [session EXCEPT
        !.total_trades = IF trade.outcome = "win" THEN @ + 1 ELSE @,
        !.winning_trades = IF trade.outcome = "win" THEN @ + 1 ELSE @,
        !.losing_trades = IF trade.outcome = "loss" THEN @ + 1 ELSE @,
        !.scratch_trades = IF trade.outcome = "scratch" THEN @ + 1 ELSE @,
        !.total_pnl = @ + trade.pnl_points]

UpdateStatistics(session, trade) ==
    [session EXCEPT
        !.total_trades = @ + 1,
        !.winning_trades = IF trade.outcome = "win" THEN @ + 1 ELSE @,
        !.losing_trades = IF trade.outcome = "loss" THEN @ + 1 ELSE @,
        !.scratch_trades = IF trade.outcome = "scratch" THEN @ + 1 ELSE @,
        !.total_pnl = @ + trade.pnl_points]

(***************************************************************************)
(* routes/api.py: one action per request handler.  A handler runs from     *)
(* start to finish; every action records the request and the response.    *)
(***************************************************************************)
Playlists == {[i \in 1..n |-> i] : n \in 0..MaxDates}
TimeWindowInputs == {"", "morning_1", "evening_9"}
SessionIdInputs == {1, 2}
\* enter_trade requests <<session_id, timestamp, direction, entry_price>>: the valid
\* ones, and one for each validation that rejects.
EnterInputs ==
    {<<1, 0, "long", 100>>, <<1, 3, "short", 100>>,
     <<1, 0, "long", 0>>, <<1, 0, "flat", 100>>, <<2, 0, "long", 100>>}
TradeIdInputs == 1..(MaxTrades + 1)

\* The 3m slices prepare_replay_data hands to an outcome request: None or empty
\* (the empty sequence), or k bars of the requested day and window, the first k - 1
\* of them quiet (inside every stop and target) and the last of any shape.  What
\* follows a bar that touches a level is the subject of SpecEval.
ApiBarShapes == {<<83, 117>>, <<46, 117>>, <<83, 155>>}
ApiDfs ==
    {<<>>} \cup {[i \in 1..k |-> IF i < k THEN BarAt(i, 83, 117) ELSE BarAt(i, s[1], s[2])]
                 : k \in 1..MaxApiBars, s \in ApiBarShapes}

StartSession(dates, time_window) ==
    /\ Len(sessions) < 1
    /\ request' = [op |-> "start_session", dates |-> dates, time_window |-> time_window]
    /\ IF dates = <<>> \/ time_window = ""
       THEN /\ response' = [op |-> "start_session", status |-> 400]
            /\ UNCHANGED sessions
       ELSE IF time_window \notin TIME_WINDOWS
       THEN /\ response' = [op |-> "start_session", status |-> 400]
            /\ UNCHANGED sessions
       ELSE IF Len(dates) > MAX_DATES_PER_SESSION
       THEN /\ response' = [op |-> "start_session", status |-> 400]
            /\ UNCHANGED sessions
       ELSE /\ sessions' = Append(sessions,
                   CreateSession(SeqMin(dates), SeqMax(dates), time_window, dates))
            /\ response' = [op |-> "start_session", status |-> 201]
    /\ UNCHANGED <<trades, candles, procs>>

NextScenario(session_id) ==
    /\ request' = [op |-> "next", session_id |-> session_id]
    /\ IF session_id \notin 1..Len(sessions)
       THEN /\ response' = [op |-> "next", status |-> 404]
            /\ UNCHANGED sessions
       ELSE LET r == AdvanceToNextDate(sessions[session_id]) IN
            /\ sessions' = [sessions EXCEPT ![session_id] = r.session]
            /\ response' = [op |-> "next", status |-> 200, completed |-> ~r.has_next]
    /\ UNCHANGED <<trades, candles, procs>>

EnterTrade(session_id, timestamp, direction, entry_price) ==
    /\ Len(trades) < MaxTrades
    /\ request' = [op |-> "enter", session_id |-> session_id, timestamp |-> timestamp,
                   direction |-> direction, entry_price |-> entry_price]
    /\ IF entry_price = 0
       THEN /\ response' = [op |-> "enter", status |-> 400]
            /\ UNCHANGED trades
       ELSE IF direction \notin {"long", "short"}
       THEN /\ response' = [op |-> "enter", status |-> 400]
            /\ UNCHANGED trades
       ELSE IF session_id \notin 1..Len(sessions)
       THEN /\ response' = [op |-> "enter", status |-> 404]
            /\ UNCHANGED trades
       ELSE /\ trades' = Append(trades,
                   EnterTradeCreate(session_id, timestamp, direction, entry_price))
            /\ response' = [op |-> "enter", status |-> 201]
    /\ UNCHANGED <<sessions, candles, procs>>

\* if trade.outcome: the outcome is already determined.
OutcomeDeterminedNever(trade) == FALSE

OutcomeDetermined(trade) == trade.outcome # NoOutcome

\* Every row of df, whatever its timestamp.
CandlesAfterAll(trade, df) == df

\* candles_after: the rows of df with timestamp > trade.entry_timestamp.
CandlesAfter(trade, df) ==
    LET After(c) == c.timestamp > trade.entry_timestamp IN SelectSeq(df, After)

\* What the prepare_replay_data call of an outcome request does.  The handler hands
\* it the datetime.date it parsed, prepare_replay_data hands dates to
\* fetch_and_cache, and fetch_and_cache reads start_date.tzinfo, which a
\* datetime.date does not have: the call raises and the handler's except clause
\* answers 500.  The other outcomes are the 3m slices of the day and window that the
\* rest of the handler is written for.
PrepareOutcomes ==
    {[raised |-> TRUE, df |-> <<>>]} \cup {[raised |-> FALSE, df |-> d] : d \in ApiDfs}

\* The handler asks for the slice only once the trade is found pending and both
\* parameters are given.
GetTradeOutcome(trade_id, has_params) ==
    /\ request' = [op |-> "outcome", trade_id |-> trade_id, has_params |-> has_params]
    /\ IF trade_id \notin 1..Len(trades)
       THEN /\ response' = [op |-> "outcome", status |-> 404, branch |-> "not_found"]
            /\ UNCHANGED <<trades, sessions>>
       ELSE LET trade == trades[trade_id] IN
       IF OutcomeDetermined(trade)
       THEN /\ response' = [op |-> "outcome", status |-> 200, branch |-> "determined"]
            /\ UNCHANGED <<trades, sessions>>
       ELSE IF ~has_params
       THEN /\ response' = [op |-> "outcome", status |-> 400, branch |-> "params"]
            /\ UNCHANGED <<trades, sessions>>
       ELSE \E prepared \in PrepareOutcomes :
       LET df == prepared.df IN
       IF prepared.raised
       THEN /\ response' = [op |-> "outcome", status |-> 500, branch |-> "error"]
            /\ UNCHANGED <<trades, sessions>>
       ELSE IF df = <<>>
       THEN /\ response' = [op |-> "outcome", status |-> 404, branch |-> "no_data"]
            /\ UNCHANGED <<trades, sessions>>
       ELSE LET candles_after == CandlesAfter(trade, df) IN
       IF candles_after = <<>>
       THEN /\ response' = [op |-> "outcome", status |-> 200, branch |-> "no_candles",
                            outcome |-> "pending"]
            /\ UNCHANGED <<trades, sessions>>
       ELSE LET r == DetermineOutcome(trade, candles_after) IN
            /\ trades' = [trades EXCEPT ![trade_id] = r.trade]
            /\ sessions' =
                  IF OutcomeDetermined(r.trade)
                  THEN [sessions EXCEPT ![trade.session_id] = UpdateStatistics(@, r.trade)]
                  ELSE sessions
            /\ response' = [op |-> "outcome", status |-> 200, branch |-> "evaluated",
                            scanned |-> r.scanned,
                            outcome_details |-> r.result]
    /\ UNCHANGED <<candles, procs>>

Init ==
    /\ sessions = <<>>
    /\ trades = <<>>
    /\ candles = EmptyBag
    /\ request = NoRequest
    /\ response = NoResponse
    /\ procs = NoProcs

Next ==
    \/ \E dates \in Playlists, time_window \in TimeWindowInputs :
          StartSession(dates, time_window)
    \/ \E session_id \in SessionIdInputs : NextScenario(session_id)
    \/ \E e \in EnterInputs : EnterTrade(e[1], e[2], e[3], e[4])
    \/ \E trade_id \in TradeIdInputs, has_params \in BOOLEAN :
          GetTradeOutcome(trade_id, has_params)

Spec == Init /\ [][Next]_vars

Resolved(t) == t.outcome \in {"win", "loss"}

\* C3: once a trade's outcome is win or loss, no request changes its outcome,
\* exit_price, exit_timestamp, pnl_points or pnl_percentage.
C3_WriteOnceOutcome ==
    [][\A i \in 1..Len(trades) :
          Resolved(trades[i]) =>
              /\ i <= Len(trades')
              /\ trades'[i].outcome = trades[i].outcome
              /\ trades'[i].exit_price = trades[i].exit_price
              /\ trades'[i].exit_timestamp = trades[i].exit_timestamp
              /\ trades'[i].pnl_points = trades[i].pnl_points
              /\ trades'[i].pnl_percentage = trades[i].pnl_percentage]_vars

\* A resolved trade has received a further outcome request, with parameters.
C3_Witness ==
    /\ response.op = "outcome"
    /\ response.branch = "determined"
    /\ request.has_params
    /\ trades[request.trade_id].outcome = "win"

\* C4: an outcome request whose evaluator reads no bar that breaches a level (so
\* whenever no bar of the supplied sequence does) reports 'pending', leaves the trade's outcome, exit_price and exit_timestamp unset and its
\* pnl at the initial 0, and leaves every session as it was.
C4_PendingPersistence ==
    [][(/\ response'.op = "outcome"
        /\ response'.branch = "evaluated"
        /\ Touched(trades[request'.trade_id], response'.scanned) = {})
       =>
       (/\ response'.outcome_details = [outcome |-> "pending"]
        /\ LET t == trades'[request'.trade_id] IN
              /\ t.outcome = NoOutcome
              /\ t.exit_price = None
              /\ t.exit_timestamp = None
              /\ t.pnl_points = 0
              /\ t.pnl_percentage = 0
        /\ sessions' = sessions)]_vars

C4_Witness ==
    /\ response.op = "outcome"
    /\ response.branch = "evaluated"
    /\ Len(response.scanned) = MaxApiBars
    /\ Touched(trades[request.trade_id], response.scanned) = {}
    /\ response.outcome_details.outcome = "pending"
    /\ trades[request.trade_id].outcome = NoOutcome
    /\ sessions[1].total_trades = 0

\* C6: no request changes the stop_loss, take_profit, entry_price, direction or
\* entry_timestamp of a trade that exists.
C6_LevelsNeverMutated ==
    [][\A i \in 1..Len(trades) :
          /\ i <= Len(trades')
          /\ trades'[i].stop_loss = trades[i].stop_loss
          /\ trades'[i].take_profit = trades[i].take_profit
          /\ trades'[i].entry_price = trades[i].entry_price
          /\ trades'[i].direction = trades[i].direction
          /\ trades'[i].entry_timestamp = trades[i].entry_timestamp]_vars

\* A trade went through outcome evaluation, a statistics update and a session advance.
C6_Witness ==
    /\ Len(trades) = MaxTrades
    /\ trades[1].outcome = "win"
    /\ trades[2].outcome = "loss"
    /\ sessions[1].total_trades = 2
    /\ sessions[1].current_date_index = 1
    /\ trades[1].stop_loss = Some(trades[1].entry_price - 18)

(***************************************************************************)
(* models/candle.py and data/fetcher.py: the candle cache.  The candles     *)
(* table is a bag of rows: the autoincrement id tells two rows with equal  *)
(* columns apart, and no constraint of the table forbids them.             *)
(***************************************************************************)
Timeframes == {"1m", "3m"}
CacheTimestamps == 1..MaxCacheBars
Variants == {0, 1}

\* One row of a provider DataFrame: the index value and the OHLCV columns.
Row(timestamp, variant) ==
    [timestamp |-> timestamp, Open |-> 100 + variant, High |-> 110 + variant,
     Low |-> 90 + variant, Close |-> 105 + variant, Volume |-> 1 + variant]

\* DataFrames the provider or the resampler hands to cache_data: None or empty (the
\* empty sequence), or rows in ascending order of distinct timestamps.  The bar at
\* the latest timestamp is the one a later download can report with other values.
DfOf(S, variant) ==
    [i \in 1..Cardinality(S) |->
        LET t == CHOOSE t \in S : Cardinality({u \in S : u < t}) = i - 1
        IN  Row(t, IF t = MaxCacheBars THEN variant ELSE 0)]

CacheDfs ==
    {<<>>} \cup {DfOf(S, variant) : S \in (SUBSET CacheTimestamps) \ {{}}, variant \in Variants}

FromSeries(series, timeframe) ==
    Candle(series.timestamp, series.Open, series.High, series.Low, series.Close,
           series.Volume, timeframe)

ExistsNever(store, timestamp, timeframe) == FALSE

Exists(store, timestamp, timeframe) ==
    \E c \in BagToSet(store) : c.timestamp = timestamp /\ c.timeframe = timeframe

SeqToBag(q) ==
    [c \in {q[i] : i \in DOMAIN q} |-> Cardinality({i \in DOMAIN q : q[i] = c})]

\* The database transaction of bulk_insert: commit makes the rows written in the
\* transaction visible, rollback discards them.
\* A commit that leaves only the rows written in the transaction.
CommitReplacing(committed, transaction) == transaction (-) committed

Commit(committed, transaction) == transaction

RollbackKeepingWritten(committed, transaction) == transaction

Rollback(committed, transaction) == committed

\* failure is None when bulk_save_objects and commit go through, and Some(k) when
\* the database raises after k rows of the batch were written.
BulkInsert(store, batch, failure) ==
    LET written == IF failure = None THEN batch ELSE SubSeq(batch, 1, failure[1])
        transaction == store (+) SeqToBag(written)
    IN  IF failure = None
        THEN [store |-> Commit(store, transaction), ok |-> TRUE]
        ELSE [store |-> Rollback(store, transaction), ok |-> FALSE]

BulkInsertFailures(batch) == {None} \cup {Some(k) : k \in 0..Len(batch)}

CandlesToInsertFirst(store, df, timeframe) ==
    LET Absent(row) == ~Exists(store, row.timestamp, timeframe)
        rows == SelectSeq(df, Absent)
    IN  [i \in 1..(IF rows = <<>> THEN 0 ELSE 1) |-> FromSeries(rows[i], timeframe)]

\* The loop of cache_data run against a store nobody else writes meanwhile.
CandlesToInsert(store, df, timeframe) ==
    LET Absent(row) == ~Exists(store, row.timestamp, timeframe)
        rows == SelectSeq(df, Absent)
    IN  [i \in 1..Len(rows) |-> FromSeries(rows[i], timeframe)]

\* bulk_insert is None when cache_data did not call it, else Some(what it returned).
CacheDataReturn(cached_count, bulk_insert, error) ==
    [op |-> "cache_data", cached_count |-> cached_count, bulk_insert |-> bulk_insert,
     error |-> error]

\* One cache_data call from start to finish.  query_error: a Candle.exists query
\* raises, which the except clause of cache_data turns into a return of 0.
CacheData(df, timeframe, query_error) ==
    /\ request' = [op |-> "cache_data", df |-> df, timeframe |-> timeframe,
                   repeated |-> /\ request.op = "cache_data"
                                /\ request.df = df
                                /\ request.timeframe = timeframe]
    /\ IF df = <<>>
       THEN /\ response' = CacheDataReturn(0, None, FALSE)
            /\ UNCHANGED candles
       ELSE IF query_error
       THEN /\ response' = CacheDataReturn(0, None, TRUE)
            /\ UNCHANGED candles
       ELSE LET candles_to_insert == CandlesToInsert(candles, df, timeframe) IN
       IF candles_to_insert # <<>>
       THEN \E failure \in BulkInsertFailures(candles_to_insert) :
               LET r == BulkInsert(candles, candles_to_insert, failure) IN
               /\ candles' = r.store
               /\ response' = CacheDataReturn(Len(candles_to_insert), Some(r.ok), FALSE)
       ELSE /\ response' = CacheDataReturn(0, None, FALSE)
            /\ UNCHANGED candles
    /\ UNCHANGED <<sessions, trades, procs>>

CacheNext ==
    \E df \in CacheDfs, timeframe \in Timeframes, query_error \in BOOLEAN :
        CacheData(df, timeframe, query_error)

SpecCache == Init /\ [][CacheNext]_vars

\* Rows of the store under one (timestamp, timeframe) key.
RowsFor(store, timestamp, timeframe) ==
    LET keyed == {c \in BagToSet(store) : c.timestamp = timestamp /\ c.timeframe = timeframe}
    IN  BagCardinality([c \in keyed |-> CopiesIn(c, store)])

KeysOf(df) == {df[i].timestamp : i \in DOMAIN df}

\* The step is the second of two cache_data calls in sequence with the same bars
\* and the same timeframe.
SecondApplication ==
    /\ request'.op = "cache_data"
    /\ request'.repeated
    /\ request'.df # <<>>

\* The first of the two calls completed without a database error.
FirstApplied == ~response.error /\ response.bulk_insert # Some(FALSE)

OneRowPerKey(store, df, timeframe) ==
    \A timestamp \in KeysOf(df) : RowsFor(store, timestamp, timeframe) = 1

AtMostOneRowPerKey(store) ==
    \A timestamp \in CacheTimestamps, timeframe \in Timeframes :
        RowsFor(store, timestamp, timeframe) <= 1

C10_AtomicBatchInsert ==
    [][(request'.op = "cache_data" /\ response'.bulk_insert # None) =>
          LET tf == request'.timeframe
              new == {i \in DOMAIN request'.df : ~Exists(candles, request'.df[i].timestamp, tf)}
          IN  /\ response'.bulk_insert = Some(FALSE) => candles' = candles
              /\ response'.bulk_insert = Some(TRUE) =>
                    /\ candles \sqsubseteq candles'
                    /\ \A i \in new : BagIn(FromSeries(request'.df[i], tf), candles')
                    /\ BagCardinality(candles') = BagCardinality(candles) + Cardinality(new)]_vars

\* A batch of MaxCacheBars new bars failed against a store that holds other
\* rows: none of the batch's keys is present.
C10_Witness ==
    /\ request.op = "cache_data"
    /\ response.bulk_insert = Some(FALSE)
    /\ response.cached_count = MaxCacheBars
    /\ candles # EmptyBag
    /\ \A timestamp \in KeysOf(request.df) : ~Exists(candles, timestamp, request.timeframe)

\* A batch of MaxCacheBars new bars was committed: all of them are stored.
C10_WitnessCommitted ==
    /\ request.op = "cache_data"
    /\ response.bulk_insert = Some(TRUE)
    /\ response.cached_count = MaxCacheBars
    /\ OneRowPerKey(candles, request.df, request.timeframe)

(***************************************************************************)
(* SpecConc: two fetch_and_cache calls for the same range and timeframe,   *)
(* each in its own request thread (app.run serves requests on threads) with *)
(* its own database session.  The requested timeframe is the base interval *)
(* the provider is asked for, so a call writes back once.  A step is one    *)
(* database statement or one provider download; the database serializes    *)
(* the statements, and nothing else orders the two calls.  No statement     *)
(* fails in this specification.                                            *)
(***************************************************************************)
Callers == {1, 2}
RequestedTimeframe == "1m"

IdleCall ==
    [pc |-> "idle", df |-> <<>>, i |-> 0, candles_to_insert |-> <<>>, returned |-> "nothing"]

\* get_cached_data returns a non-empty DataFrame: some stored bar carries the
\* timeframe and lies in [start_date, end_date].
CacheHit(store, start_date, end_date, timeframe) ==
    \E c \in BagToSet(store) :
        /\ c.timeframe = timeframe
        /\ c.timestamp >= start_date
        /\ c.timestamp <= end_date

\* fetch_and_cache up to the cache lookup.
LookupCache(p) ==
    /\ procs[p].pc = "idle"
    /\ IF CacheHit(candles, 1, MaxCacheBars, RequestedTimeframe)
       THEN procs' = [procs EXCEPT ![p].pc = "done", ![p].returned = "cached"]
       ELSE procs' = [procs EXCEPT ![p].pc = "fetch"]
    /\ UNCHANGED <<sessions, trades, candles, request, response>>

\* fetch_german30_data, and cache_data up to its loop.
FetchBase(p, df) ==
    /\ procs[p].pc = "fetch"
    /\ IF df = <<>>
       THEN procs' = [procs EXCEPT ![p].pc = "done", ![p].returned = "None"]
       ELSE procs' = [procs EXCEPT ![p].pc = "exists", ![p].df = df, ![p].i = 1]
    /\ UNCHANGED <<sessions, trades, candles, request, response>>

\* One round of the loop of cache_data: the Candle.exists query for row i.
CheckExists(p) ==
    /\ procs[p].pc = "exists"
    /\ LET me == procs[p]
           row == me.df[me.i]
           candles_to_insert ==
               IF ~Exists(candles, row.timestamp, RequestedTimeframe)
               THEN Append(me.candles_to_insert, FromSeries(row, RequestedTimeframe))
               ELSE me.candles_to_insert
       IN  procs' = [procs EXCEPT
               ![p].candles_to_insert = candles_to_insert,
               ![p].i = me.i + 1,
               ![p].pc = IF me.i < Len(me.df) THEN "exists"
                         ELSE IF candles_to_insert # <<>> THEN "insert"
                         ELSE "done",
               ![p].returned = IF me.i < Len(me.df) \/ candles_to_insert # <<>>
                               THEN me.returned ELSE "fetched"]
    /\ UNCHANGED <<sessions, trades, candles, request, response>>

\* Candle.bulk_insert of the batch, and the return of df_base.
InsertBatch(p) ==
    /\ procs[p].pc = "insert"
    /\ candles' = BulkInsert(candles, procs[p].candles_to_insert, None).store
    /\ procs' = [procs EXCEPT ![p].pc = "done", ![p].returned = "fetched"]
    /\ UNCHANGED <<sessions, trades, request, response>>

ConcInit ==
    /\ sessions = <<>>
    /\ trades = <<>>
    /\ candles = EmptyBag
    /\ request = NoRequest
    /\ response = NoResponse
    /\ procs = [p \in Callers |-> IdleCall]

ConcNext ==
    \E p \in Callers :
        \/ LookupCache(p)
        \/ \E df \in CacheDfs : FetchBase(p, df)
        \/ CheckExists(p)
        \/ InsertBatch(p)

SpecConc == ConcInit /\ [][ConcNext]_vars

\* Both calls are over, and both missed the cache and wrote a batch back.
BothMissedAndWrote ==
    \A p \in Callers :
        /\ procs[p].pc = "done"
        /\ procs[p].candles_to_insert # <<>>

\* C9 as the specification states it: when two fetch_and_cache calls for the
\* same range and timeframe run concurrently, both miss the cache and both
\* write back, the store ends up holding at most one bar per (timestamp,
\* timeframe) key, and neither call fails: each returns the bars it fetched.
C9_KeyUniquenessUnderConcurrentMisses ==
    BothMissedAndWrote =>
        /\ AtMostOneRowPerKey(candles)
        /\ \A p \in Callers : procs[p].returned = "fetched"

(***************************************************************************)
(* data/fetcher.py: the aggregator (resample_to_timeframe and               *)
(* resample_to_3min).  A DataFrame is None or Some(rows), rows in ascending *)
(* order of distinct timestamps, as pandas keeps a resampled index and as   *)
(* the provider delivers it.  A cell of an aggregated row is Some(value) or *)
(* None, which stands for NaN.                                             *)
(***************************************************************************)
\* timeframe_map, each pandas rule as the width of its bins in minutes.
TimeframeMap ==
    ("1m" :> 1) @@ ("3m" :> 3) @@ ("5m" :> 5) @@ ("15m" :> 15) @@ ("1h" :> 60) @@
    ("4h" :> 240) @@ ("1d" :> 1440)

RECURSIVE SeqSum(_)
SeqSum(q) == IF q = <<>> THEN 0 ELSE q[1] + SeqSum(Tail(q))

Column(rows, name) == [i \in 1..Len(rows) |-> rows[i][name]]

\* The left edges of the bins pandas lays over the index, in ascending order: every
\* bin from the one of the first row to the one of the last row, empty ones included.
Bins(rows, width) ==
    LET first == rows[1].timestamp \div width
        last == rows[Len(rows)].timestamp \div width
    IN  [i \in 1..(last - first + 1) |-> width * (first + i - 1)]

BinMembers(rows, width, bin) ==
    LET InBin(r) == r.timestamp >= bin /\ r.timestamp < bin + width
    IN  SelectSeq(rows, InBin)

\* agg({'Open': 'first', 'High': 'max', 'Low': 'min', 'Close': 'last', 'Volume': 'sum'})
\* on one bin: first, max, min and last of no rows are NaN, the sum of no rows is 0.
AggregateCloseFirst(members, bin) ==
    IF members = <<>>
    THEN [timestamp |-> bin, Open |-> None, High |-> None, Low |-> None, Close |-> None,
          Volume |-> Some(0)]
    ELSE [timestamp |-> bin,
          Open |-> Some(members[1].Open),
          High |-> Some(SeqMax(Column(members, "High"))),
          Low |-> Some(SeqMin(Column(members, "Low"))),
          Close |-> Some(members[1].Close),
          Volume |-> Some(SeqSum(Column(members, "Volume")))]

Aggregate(members, bin) ==
    IF members = <<>>
    THEN [timestamp |-> bin, Open |-> None, High |-> None, Low |-> None, Close |-> None,
          Volume |-> Some(0)]
    ELSE [timestamp |-> bin,
          Open |-> Some(members[1].Open),
          High |-> Some(SeqMax(Column(members, "High"))),
          Low |-> Some(SeqMin(Column(members, "Low"))),
          Close |-> Some(members[Len(members)].Close),
          Volume |-> Some(SeqSum(Column(members, "Volume")))]

\* df.resample(rule).agg(...): one row per bin, in ascending order.
Resample(rows, width) ==
    LET bins == Bins(rows, width)
    IN  [i \in 1..Len(bins) |-> Aggregate(BinMembers(rows, width, bins[i]), bins[i])]

HasNaN(r) == None \in {r.Open, r.High, r.Low, r.Close, r.Volume}

\* dropna(): the rows without a NaN cell.
Dropna(resampled) ==
    LET Kept(r) == ~HasNaN(r)
        kept == SelectSeq(resampled, Kept)
    IN  [i \in 1..Len(kept) |->
            [timestamp |-> kept[i].timestamp, Open |-> kept[i].Open[1],
             High |-> kept[i].High[1], Low |-> kept[i].Low[1],
             Close |-> kept[i].Close[1], Volume |-> kept[i].Volume[1]]]

IsEmpty(df) == df = None \/ df[1] = <<>>

ResampleToTimeframe(df, timeframe) ==
    IF IsEmpty(df) THEN None
    ELSE IF timeframe \notin DOMAIN TimeframeMap THEN None
    ELSE Some(Dropna(Resample(df[1], TimeframeMap[timeframe])))

ResampleTo3min(df) ==
    IF IsEmpty(df) THEN None
    ELSE Some(Dropna(Resample(df[1], 3)))

(***************************************************************************)
(* SpecAgg: one call of the aggregator on a DataFrame of 1-minute bars,    *)
(* over every choice of present minutes, two bar shapes per minute, and     *)
(* supported and unsupported target timeframes.                            *)
(***************************************************************************)
AggShapes == {<<100, 110, 90, 105, 1>>, <<104, 120, 80, 101, 2>>}

AggRows(S, shape) ==
    [i \in 1..Cardinality(S) |->
        LET t == CHOOSE t \in S : Cardinality({u \in S : u < t}) = i - 1
        IN  [timestamp |-> t, Open |-> shape[t][1], High |-> shape[t][2],
             Low |-> shape[t][3], Close |-> shape[t][4], Volume |-> shape[t][5]]]

AggDfs ==
    {None} \cup
    {Some(AggRows(S, shape)) : S \in SUBSET (0..(MaxAggBars - 1)),
                               shape \in [0..(MaxAggBars - 1) -> AggShapes]}

AggTimeframes == {"1m", "3m", "5m", "2m"}

AggInit ==
    /\ sessions = <<>>
    /\ trades = <<>>
    /\ candles = EmptyBag
    /\ procs = NoProcs
    /\ response = NoResponse
    /\ \E df \in AggDfs, timeframe \in AggTimeframes,
          via \in {"resample_to_timeframe", "resample_to_3min"} :
          /\ via = "resample_to_3min" => timeframe = "3m"
          /\ request = [op |-> "resample", via |-> via, df |-> df, timeframe |-> timeframe]

AggResample ==
    /\ response = NoResponse
    /\ response' = [op |-> "resample",
                    result |-> IF request.via = "resample_to_3min"
                               THEN ResampleTo3min(request.df)
                               ELSE ResampleToTimeframe(request.df, request.timeframe)]
    /\ UNCHANGED <<sessions, trades, candles, request, procs>>

AggNext == AggResample

SpecAgg == AggInit /\ [][AggNext]_vars

\* The aggregator has answered a request for a supported timeframe with bars.
Aggregated ==
    /\ response.op = "resample"
    /\ request.timeframe \in DOMAIN TimeframeMap
    /\ response.result # None

BucketOf(timestamp, width) == width * (timestamp \div width)

\* Source rows of the request that fall into the bucket starting at bucket.
SourceOf(bucket, width) ==
    {j \in DOMAIN request.df[1] : BucketOf(request.df[1][j].timestamp, width) = bucket}

RECURSIVE VolumeOver(_)
VolumeOver(S) ==
    IF S = {} THEN 0
    ELSE LET j == CHOOSE j \in S : TRUE
         IN  request.df[1][j].Volume + VolumeOver(S \ {j})

\* C18: every bar the aggregator emits starts a timeframe-aligned bucket that
\* holds source bars; its open is the open of the earliest source bar of the
\* bucket, its close the close of the latest, its high the maximum of their
\* highs, its low the minimum of their lows, its volume the sum of their
\* volumes; the output is in ascending timestamp order, one bar per bucket.
C18_AggregationCorrectness ==
    Aggregated =>
        LET src == request.df[1]
            out == response.result[1]
            width == TimeframeMap[request.timeframe]
        IN  /\ \A i \in DOMAIN out :
                  LET S == SourceOf(out[i].timestamp, width)
                      earliest == CHOOSE j \in S : \A k \in S : src[j].timestamp <= src[k].timestamp
                      latest == CHOOSE j \in S : \A k \in S : src[j].timestamp >= src[k].timestamp
                  IN  /\ S # {}
                      /\ BucketOf(out[i].timestamp, width) = out[i].timestamp
                      /\ out[i].Open = src[earliest].Open
                      /\ out[i].Close = src[latest].Close
                      /\ \A j \in S : out[i].High >= src[j].High
                      /\ \E j \in S : out[i].High = src[j].High
                      /\ \A j \in S : out[i].Low <= src[j].Low
                      /\ \E j \in S : out[i].Low = src[j].Low
                      /\ out[i].Volume = VolumeOver(S)
            /\ \A i, k \in DOMAIN out : i < k => out[i].timestamp < out[k].timestamp

\* A 3-minute bucket built from three 1-minute bars that differ in shape, followed
\* by another bucket.
C18_Witness ==
    /\ Aggregated
    /\ request.timeframe = "3m"
    /\ Len(response.result[1]) = 2
    /\ Cardinality(SourceOf(0, 3)) = 3
    /\ request.df[1][1].Close # request.df[1][3].Close
    /\ request.df[1][1].High # request.df[1][2].High

\* C19 as the specification states it: a bucket that misses at least one of its
\* underlying 1-minute source bars is absent from the aggregator's output.
C19_IncompleteBucketsDiscarded ==
    Aggregated =>
        LET src == request.df[1]
            out == response.result[1]
            width == TimeframeMap[request.timeframe]
        IN  \A i \in DOMAIN out :
               \A t \in out[i].timestamp..(out[i].timestamp + width - 1) :
                  \E j \in DOMAIN src : src[j].timestamp = t

\* C20 as the specification states it, for the aggregator: asked for a target
\* timeframe outside the supported set, it answers with a result that differs
\* from None, its answer to an empty input.
C20_UnsupportedTimeframeDistinguishable ==
    (/\ response.op = "resample"
     /\ request.via = "resample_to_timeframe"
     /\ request.timeframe \notin DOMAIN TimeframeMap
     /\ ~IsEmpty(request.df)) =>
        response.result # ResampleToTimeframe(None, "3m")

(***************************************************************************)
(* data/fetcher.py: fetch_and_cache and what it calls.  A callee answers    *)
(* with its value and with raised, TRUE when an exception leaves it; the    *)
(* caller of a callee that raised raises too, having no handler of its own. *)
(* Dates are minutes since the midnight the requested range starts at.      *)
(***************************************************************************)
Returned(value) == [value |-> value, raised |-> FALSE]
Raised == [value |-> None, raised |-> TRUE]

\* Candle.get_range: the stored bars of the timeframe with start_date <= timestamp
\* <= end_date, ordered by timestamp.  Which of two rows with equal timestamps comes
\* first is up to the database.
RECURSIVE SortedByTimestamp(_)
SortedByTimestamp(bag) ==
    IF bag = EmptyBag THEN <<>>
    ELSE LET c == CHOOSE c \in BagToSet(bag) :
                     \A d \in BagToSet(bag) : c.timestamp <= d.timestamp
         IN  <<c>> \o SortedByTimestamp(bag (-) SetToBag({c}))

InRangeOpenEnd(c, start_date, end_date, timeframe) ==
    /\ c.timeframe = timeframe
    /\ c.timestamp >= start_date
    /\ c.timestamp < end_date

InRange(c, start_date, end_date, timeframe) ==
    /\ c.timeframe = timeframe
    /\ c.timestamp >= start_date
    /\ c.timestamp <= end_date

GetRange(store, start_date, end_date, timeframe) ==
    LET matching == {c \in BagToSet(store) : InRange(c, start_date, end_date, timeframe)}
    IN  SortedByTimestamp([c \in matching |-> CopiesIn(c, store)])

GetCachedDataNothing(store, start_date, end_date, timeframe) == None

\* get_cached_data: None when no bar matches, else the bars as a DataFrame.
GetCachedData(store, start_date, end_date, timeframe) ==
    LET cs == GetRange(store, start_date, end_date, timeframe)
    IN  IF cs = <<>> THEN None
        ELSE Some([i \in 1..Len(cs) |->
                      [timestamp |-> cs[i].timestamp, Open |-> cs[i].open,
                       High |-> cs[i].high, Low |-> cs[i].low, Close |-> cs[i].close,
                       Volume |-> cs[i].volume]])

BaseIntervalBelow(days_ago) ==
    IF days_ago < 7 THEN "1m"
    ELSE IF days_ago < 60 THEN "5m"
    ELSE "1h"

\* The interval fetch_and_cache asks the provider for.
BaseInterval(days_ago) ==
    IF days_ago <= 7 THEN "1m"
    ELSE IF days_ago <= 60 THEN "5m"
    ELSE "1h"

\* What ticker.history does: it raises, or it returns rows (none for a range of no
\* days).  Bar k of an interval starts k intervals after midnight.
ProviderRows(interval) ==
    [i \in 1..MaxFetchBars |->
        [timestamp |-> TimeframeMap[interval] * (i - 1), Open |-> 100 + i, High |-> 103 + i,
         Low |-> 98 + i, Close |-> 101 + i, Volume |-> TimeframeMap[interval]]]

ProviderOutcomes(start_date, end_date, interval) ==
    {[raises |-> TRUE, rows |-> <<>>], [raises |-> FALSE, rows |-> <<>>]} \cup
    (IF start_date < end_date
     THEN {[raises |-> FALSE, rows |-> ProviderRows(interval)]}
     ELSE {})

FetchGerman30DataRaising(outcome) ==
    IF outcome.raises THEN Raised
    ELSE IF outcome.rows = <<>> THEN Returned(None)
    ELSE Returned(Some(outcome.rows))

\* fetch_german30_data: None when the provider raises or returns no rows.
FetchGerman30Data(outcome) ==
    IF outcome.raises THEN Returned(None)
    ELSE IF outcome.rows = <<>> THEN Returned(None)
    ELSE Returned(Some(outcome.rows))

\* Database faults during one cache_data call: none, a Candle.exists query that
\* raises, or a bulk_insert whose commit raises.
Faults == {"none", "query", "insert"}

\* The faults of the first and of the second cache_data call of one fetch_and_cache.
FaultInputs ==
    {<<"none", "none">>, <<"query", "none">>, <<"none", "insert">>, <<"insert", "query">>}

CacheDataCallRaising(store, df, timeframe, fault) ==
    IF IsEmpty(df) THEN [store |-> store, cached_count |-> 0, failed |-> FALSE, raised |-> FALSE]
    ELSE IF fault = "query"
    THEN [store |-> store, cached_count |-> 0, failed |-> TRUE, raised |-> TRUE]
    ELSE LET candles_to_insert == CandlesToInsert(store, df[1], timeframe) IN
         IF candles_to_insert # <<>>
         THEN LET r == BulkInsert(store, candles_to_insert,
                          IF fault = "insert" THEN Some(Len(candles_to_insert)) ELSE None)
              IN  [store |-> r.store, cached_count |-> Len(candles_to_insert),
                   failed |-> ~r.ok, raised |-> ~r.ok]
         ELSE [store |-> store, cached_count |-> 0, failed |-> FALSE, raised |-> FALSE]

\* cache_data as fetch_and_cache calls it: the store afterwards, the count it
\* returns, whether the write failed, and raised, which its except clause and the
\* one of bulk_insert keep FALSE.
CacheDataCall(store, df, timeframe, fault) ==
    IF IsEmpty(df) THEN [store |-> store, cached_count |-> 0, failed |-> FALSE, raised |-> FALSE]
    ELSE IF fault = "query"
    THEN [store |-> store, cached_count |-> 0, failed |-> TRUE, raised |-> FALSE]
    ELSE LET candles_to_insert == CandlesToInsert(store, df[1], timeframe) IN
         IF candles_to_insert # <<>>
         THEN LET r == BulkInsert(store, candles_to_insert,
                          IF fault = "insert" THEN Some(Len(candles_to_insert)) ELSE None)
              IN  [store |-> r.store, cached_count |-> Len(candles_to_insert),
                   failed |-> ~r.ok, raised |-> FALSE]
         ELSE [store |-> store, cached_count |-> 0, failed |-> FALSE, raised |-> FALSE]

\* What a fetch_and_cache call hands back and what it did on the way: its
\* downloads, each with the interval asked for and the provider's answer; the
\* timeframes it ran resample_to_timeframe for; and its cache_data calls, each with
\* its timeframe and whether the write failed.
FetchReturn(returned, raised, provider, aggregator, writes) ==
    [op |-> "fetch_and_cache", returned |-> returned, raised |-> raised,
     provider |-> provider, aggregator |-> aggregator, writes |-> writes]

Download(interval, outcome) ==
    [interval |-> interval, raised |-> outcome.raises, rows |-> outcome.rows]

Write(timeframe, w) == [timeframe |-> timeframe, failed |-> w.failed]

\* A download that is repeated once when the provider raised or returned no rows.
ProviderCallsRetrying(interval, outcome) ==
    IF outcome.raises \/ outcome.rows = <<>>
    THEN <<Download(interval, outcome), Download(interval, outcome)>>
    ELSE <<Download(interval, outcome)>>

\* The provider calls of one fetch_german30_data call: the one ticker.history call.
ProviderCalls(interval, outcome) == <<Download(interval, outcome)>>

SubstituteBaseNever(timeframe, base_interval) == FALSE

\* The 3m request served from 5m bars.
SubstituteBase(timeframe, base_interval) == timeframe = "3m" /\ base_interval = "5m"

\* fetch_and_cache from the download on, for a call that did not return cached bars.
FetchFresh(timeframe, days_ago, outcome, fault1, fault2) ==
    LET base_interval == BaseInterval(days_ago)
        provider == ProviderCalls(base_interval, outcome)
        fetched == FetchGerman30Data(outcome)
        df_base == fetched.value
        w1 == CacheDataCall(candles, df_base, base_interval, fault1)
    IN  IF fetched.raised
        THEN /\ response' = FetchReturn(None, TRUE, provider, <<>>, <<>>)
             /\ UNCHANGED candles
        ELSE IF IsEmpty(df_base)
        THEN /\ response' = FetchReturn(None, FALSE, provider, <<>>, <<>>)
             /\ UNCHANGED candles
        ELSE IF w1.raised
        THEN /\ response' = FetchReturn(None, TRUE, provider, <<>>,
                                        <<Write(base_interval, w1)>>)
             /\ candles' = w1.store
        ELSE IF timeframe = base_interval
        THEN /\ response' = FetchReturn(df_base, FALSE, provider, <<>>,
                                        <<Write(base_interval, w1)>>)
             /\ candles' = w1.store
        ELSE IF SubstituteBase(timeframe, base_interval)
        THEN LET w2 == CacheDataCall(w1.store, df_base, "3m", fault2) IN
             /\ response' = FetchReturn(IF w2.raised THEN None ELSE df_base, w2.raised,
                                        provider, <<>>,
                                        <<Write(base_interval, w1), Write("3m", w2)>>)
             /\ candles' = w2.store
        ELSE LET df_resampled == ResampleToTimeframe(df_base, timeframe) IN
             IF df_resampled # None
             THEN LET w2 == CacheDataCall(w1.store, df_resampled, timeframe, fault2) IN
                  /\ response' = FetchReturn(IF w2.raised THEN None ELSE df_resampled,
                                             w2.raised, provider, <<timeframe>>,
                                             <<Write(base_interval, w1), Write(timeframe, w2)>>)
                  /\ candles' = w2.store
             ELSE /\ response' = FetchReturn(None, FALSE, provider, <<timeframe>>,
                                             <<Write(base_interval, w1)>>)
                  /\ candles' = w1.store

\* One fetch_and_cache call from start to finish.  start_date and end_date are ISO
\* date strings or midnight datetimes; days_ago is the age of start_date when the
\* call runs.  after_fetch notes that the call before this one had the same start,
\* end and timeframe, downloaded from the provider and returned bars.
FetchAndCache(start_date, end_date, timeframe, force_refresh, days_ago) ==
    /\ request' = [op |-> "fetch_and_cache", start_date |-> start_date,
                   end_date |-> end_date, timeframe |-> timeframe,
                   force_refresh |-> force_refresh, days_ago |-> days_ago,
                   after_fetch |-> /\ request.op = "fetch_and_cache"
                                   /\ request.start_date = start_date
                                   /\ request.end_date = end_date
                                   /\ request.timeframe = timeframe
                                   /\ response.provider # <<>>
                                   /\ response.returned # None]
    /\ LET cached_df == IF force_refresh THEN None
                        ELSE GetCachedData(candles, start_date, end_date, timeframe)
       IN  IF ~force_refresh /\ ~IsEmpty(cached_df)
           THEN /\ response' = FetchReturn(cached_df, FALSE, <<>>, <<>>, <<>>)
                /\ UNCHANGED candles
           ELSE \E outcome \in ProviderOutcomes(start_date, end_date, BaseInterval(days_ago)) :
                   \E faults \in (IF outcome.rows = <<>> THEN {<<"none", "none">>}
                                  ELSE FaultInputs) :
                      FetchFresh(timeframe, days_ago, outcome, faults[1], faults[2])
    /\ UNCHANGED <<sessions, trades, procs>>

\* Requested ranges: one day, and the range whose start and end are the same
\* midnight, for which the provider has no day to return.
FetchRanges == {<<0, 1440>>, <<0, 0>>}

\* Requested timeframe, age of the start date and force_refresh: the base interval
\* itself (1m at 7 days), an aggregate of it (3m at 7 days), 3m from each side of
\* the two thresholds (8, 60 and 61 days), a timeframe outside timeframe_map, and
\* the first two again with the cache lookup skipped.
FetchInputs ==
    {<<"1m", 7, FALSE>>, <<"3m", 7, FALSE>>, <<"3m", 8, FALSE>>, <<"3m", 60, FALSE>>,
     <<"3m", 61, FALSE>>, <<"2m", 7, FALSE>>, <<"1m", 7, TRUE>>, <<"3m", 7, TRUE>>}

FetchNext ==
    \E range \in FetchRanges, input \in FetchInputs :
        FetchAndCache(range[1], range[2], input[1], input[3], input[2])

SpecFetch == Init /\ [][FetchNext]_vars

\* ---------------------------------------------------------------------------
\* Claims about fetch_and_cache, checked under SpecFetch.
\* ---------------------------------------------------------------------------

\* The call that has just run reached the provider.
Downloaded == response.op = "fetch_and_cache" /\ response.provider # <<>>

\* Every cache write the finished call made under its requested timeframe succeeded.
RequestedWritesSucceeded ==
    \A i \in 1..Len(response.writes) :
        response.writes[i].timeframe = request.timeframe => ~response.writes[i].failed

\* The next call repeats the finished one: same start, end and timeframe, without
\* force_refresh, after a call that downloaded and returned bars.
RepeatsFetch ==
    /\ request.op = "fetch_and_cache"
    /\ Downloaded
    /\ response.returned # None
    /\ request'.op = "fetch_and_cache"
    /\ request'.start_date = request.start_date
    /\ request'.end_date = request.end_date
    /\ request'.timeframe = request.timeframe
    /\ ~request'.force_refresh

StoredFor(store, req) ==
    {c \in BagToSet(store) : /\ c.timeframe = req.timeframe
                             /\ req.start_date <= c.timestamp
                             /\ c.timestamp <= req.end_date}

\* rows holds each bar of the set cs once, by ascending timestamp.
ExactlyAscending(rows, cs) ==
    /\ Len(rows) = Cardinality(cs)
    /\ \A i \in 1..Len(rows) :
          \E c \in cs : rows[i] = [timestamp |-> c.timestamp, Open |-> c.open,
                                   High |-> c.high, Low |-> c.low, Close |-> c.close,
                                   Volume |-> c.volume]
    /\ \A i, j \in 1..Len(rows) : i < j => rows[i].timestamp < rows[j].timestamp

PolicyInterval(days_ago) ==
    CASE days_ago <= 7 -> "1m"
      [] days_ago > 7 /\ days_ago <= 60 -> "5m"
      [] days_ago > 60 -> "1h"

\* C13: whenever a call downloads, it asks the provider once, for 1m bars when the
\* start date is at most 7 days old, 5m bars when it is more than 7 and at most 60
\* days old, and 1h bars when it is older, whatever the requested timeframe and
\* the end date.
C13_IntervalSelectionPolicy ==
    Downloaded =>
        /\ Len(response.provider) = 1
        /\ response.provider[1].interval = PolicyInterval(request.days_ago)

\* A 3m request with a start date exactly 60 days old downloaded 5m bars.
C13_Witness ==
    /\ Downloaded
    /\ request.days_ago = 60
    /\ request.timeframe = "3m"
    /\ response.provider[1].interval = "5m"
    /\ response.provider[1].rows # <<>>

\* The call that has just run downloaded and got nothing: the provider raised or
\* returned no bars.
DownloadedNothing ==
    /\ Downloaded
    /\ response.provider[1].raised \/ response.provider[1].rows = <<>>

\* C14: a call whose download raises or returns no bars returns None without
\* raising, runs no aggregation, writes nothing and leaves the store unchanged.
C14_NoDataAndProviderFailure ==
    [][DownloadedNothing' =>
          /\ response'.returned = None
          /\ ~response'.raised
          /\ response'.aggregator = <<>>
          /\ response'.writes = <<>>
          /\ candles' = candles]_vars

\* The provider raised on a 3m request while the store already held bars.
C14_Witness ==
    /\ DownloadedNothing
    /\ response.provider[1].raised
    /\ request.timeframe = "3m"
    /\ response.returned = None
    /\ candles # EmptyBag

\* The provider returned no bars.
C14_WitnessNoBars ==
    /\ DownloadedNothing
    /\ ~response.provider[1].raised
    /\ response.returned = None

\* The call that has just run downloaded and got bars.
DownloadedBars ==
    /\ Downloaded
    /\ ~response.provider[1].raised
    /\ response.provider[1].rows # <<>>

\* Every bar of rows has its timestamp stored under the tag.
StoredUnder(store, rows, tag) ==
    \A i \in 1..Len(rows) :
        \E c \in BagToSet(store) : c.timeframe = tag /\ c.timestamp = rows[i].timestamp

\* The call with response resp made a cache write under the tag that failed.
WriteFailed(resp, tag) ==
    \E i \in 1..Len(resp.writes) : resp.writes[i].timeframe = tag /\ resp.writes[i].failed

Minutes(timeframe) ==
    CASE timeframe = "1m" -> 1 [] timeframe = "2m" -> 2 [] timeframe = "3m" -> 3
      [] timeframe = "5m" -> 5 [] timeframe = "1h" -> 60

\* The requested timeframe cannot be derived from the base: it is finer than the
\* base interval or not a multiple of it.
NotDerivable(timeframe, base) ==
    Minutes(timeframe) < Minutes(base) \/ Minutes(timeframe) % Minutes(base) # 0

C16_WitnessHourly ==
    /\ DownloadedBars
    /\ request.timeframe = "3m"
    /\ response.provider[1].interval = "1h"
    /\ response.aggregator = <<"3m">>
    /\ response.returned = Some(response.provider[1].rows)
    /\ StoredUnder(candles, response.provider[1].rows, "3m")

\* Some cache write of the call with response resp failed.
SomeWriteFailed(resp) == \E i \in 1..Len(resp.writes) : resp.writes[i].failed

\* What the call owes the caller from the bars it downloaded: the base bars for
\* the base timeframe or the 5m-as-3m substitution, else their aggregation.
Obtained(timeframe, base, rows) ==
    IF timeframe = base \/ (timeframe = "3m" /\ base = "5m") THEN Some(rows)
    ELSE ResampleToTimeframe(Some(rows), timeframe)

\* C17: a call one of whose cache writes fails, the base write or the second one,
\* raises nothing and returns the bars it downloaded or their aggregation, not None,
\* for every timeframe the Aggregator supports.
C17_CacheWriteFailureDoesNotBlock ==
    [][(request'.op = "fetch_and_cache" /\ SomeWriteFailed(response')) =>
          /\ ~response'.raised
          /\ response'.returned = Obtained(request'.timeframe, response'.provider[1].interval,
                                           response'.provider[1].rows)
          /\ request'.timeframe \in DOMAIN TimeframeMap => response'.returned # None]_vars

\* Both writes of a 3m request failed, the aggregated bars came back all the same
\* and the store gained nothing.
C17_Witness ==
    /\ request.op = "fetch_and_cache"
    /\ request.timeframe = "3m"
    /\ Len(response.writes) = 2
    /\ response.writes[1].failed /\ response.writes[2].failed
    /\ response.aggregator = <<"3m">>
    /\ response.returned # None
    /\ ~response.raised
    /\ candles = EmptyBag

(***************************************************************************)
(* data/processor.py: the trading calendar and the window filter.  A date   *)
(* is a day number, day 0 a Monday; a timestamp is minutes of UTC since     *)
(* midnight of day 0; a time of day is minutes since midnight.              *)
(***************************************************************************)
MinutesPerDay == 1440

\* Config.TIME_WINDOWS: start and end of each window as times of day.
TimeWindowTimes ==
    ("morning_1" :> [start |-> 8 * 60 + 6, end |-> 8 * 60 + 23]) @@
    ("morning_2" :> [start |-> 9 * 60 + 6, end |-> 9 * 60 + 23]) @@
    ("afternoon_1" :> [start |-> 14 * 60 + 30, end |-> 14 * 60 + 45]) @@
    ("afternoon_2" :> [start |-> 15 * 60 + 6, end |-> 15 * 60 + 23])

\* Europe/London: the days of the model on which British Summer Time is in force.
\* Day 0 is a winter day, day 1 a summer day.
SummerDays == {1}

DateOf(timestamp) == timestamp \div MinutesPerDay

ConvertToBstIdentity(dt) == dt

\* convert_to_bst: the wall-clock reading in Europe/London of a UTC instant.
ConvertToBst(dt) == IF DateOf(dt) \in SummerDays THEN dt + 60 ELSE dt

\* datetime.time(): the time of day of a wall-clock reading.
TimeOf(dt) == dt % MinutesPerDay

FilterTimeWindow(df, window_key) ==
    IF IsEmpty(df) THEN df
    ELSE IF window_key \notin DOMAIN TimeWindowTimes THEN df
    ELSE LET window == TimeWindowTimes[window_key]
             InWindow(row) == /\ TimeOf(ConvertToBst(row.timestamp)) >= window.start
                              /\ TimeOf(ConvertToBst(row.timestamp)) <= window.end
         IN  Some(SelectSeq(df[1], InWindow))

(***************************************************************************)
(* SpecWindow: one filter_time_window call on a DataFrame of bars around    *)
(* the bounds of morning_1, on a winter day and on a summer day.            *)
(***************************************************************************)
\* UTC instants of the bars: 08:05, 08:06, 08:10, 08:23 and 08:24 of day 0, where
\* London reads the same, and 07:06 and 08:06 of day 1, where London reads 08:06
\* and 09:06.
WindowTimestamps ==
    {8 * 60 + 5, 8 * 60 + 6, 8 * 60 + 10, 8 * 60 + 23, 8 * 60 + 24,
     MinutesPerDay + 7 * 60 + 6, MinutesPerDay + 8 * 60 + 6}

\* The bar at a timestamp; its prices tell it from every other bar.
WindowBar(timestamp) ==
    [timestamp |-> timestamp, Open |-> 100, High |-> 110, Low |-> 90,
     Close |-> 100 + (timestamp % 7), Volume |-> 1]

RECURSIVE Ascending(_)
Ascending(S) ==
    IF S = {} THEN <<>>
    ELSE LET t == CHOOSE x \in S : \A y \in S : x <= y
         IN  <<t>> \o Ascending(S \ {t})

WindowDfs ==
    {None} \cup {Some([i \in 1..Cardinality(S) |-> WindowBar(Ascending(S)[i])])
                 : S \in SUBSET WindowTimestamps}

WindowKeys == {"morning_1", "morning_2", "evening_9"}

WindowInit ==
    /\ sessions = <<>>
    /\ trades = <<>>
    /\ candles = EmptyBag
    /\ \E df \in WindowDfs, window_key \in WindowKeys :
          request = [op |-> "filter_time_window", df |-> df, window_key |-> window_key]
    /\ response = NoResponse
    /\ procs = NoProcs

WindowFilter ==
    /\ request.op = "filter_time_window"
    /\ response = NoResponse
    /\ response' = [op |-> "filter_time_window",
                    result |-> FilterTimeWindow(request.df, request.window_key),
                    raised |-> FALSE]
    /\ UNCHANGED <<sessions, trades, candles, request, procs>>

WindowNext == WindowFilter

SpecWindow == WindowInit /\ [][WindowNext]_vars

\* The filter has run on a DataFrame that holds bars.
Filtered == response.op = "filter_time_window" /\ ~IsEmpty(request.df)

\* London's time of day at a UTC instant, in minutes since midnight.
LocalTimeOfDay(timestamp) ==
    (timestamp + (IF timestamp \div 1440 \in SummerDays THEN 60 ELSE 0)) % 1440

\* The timestamps of the rows of a DataFrame's rows.
TimestampsOf(rows) == {rows[i].timestamp : i \in 1..Len(rows)}

\* q holds rows of p only, in the order p has them.
InOrderOf(q, p) ==
    /\ \A i \in 1..Len(q) : \E j \in 1..Len(p) : q[i] = p[j]
    /\ \A i, k \in 1..Len(q) :
          i < k => \E j, l \in 1..Len(p) : j < l /\ q[i] = p[j] /\ q[k] = p[l]

\* C21: filter_time_window with a configured window key returns exactly the input
\* bars whose London time of day t has window.start <= t <= window.end, in their
\* original order; for morning_1 (08:06-08:23) the bars at 08:06, 08:10 and 08:23
\* London time are kept and the bars at 08:05 and 08:24 are dropped.
C21_WindowFilterBoundaries ==
    (Filtered /\ request.window_key \in TIME_WINDOWS) =>
        LET rows == request.df[1]
            kept == response.result[1]
            window == TimeWindowTimes[request.window_key]
        IN  /\ ~response.raised
            /\ response.result # None
            /\ InOrderOf(kept, rows)
            /\ TimestampsOf(kept) =
                  {t \in TimestampsOf(rows) : /\ window.start <= LocalTimeOfDay(t)
                                              /\ LocalTimeOfDay(t) <= window.end}
            /\ request.window_key = "morning_1" =>
                  /\ TimestampsOf(rows) \cap {486, 490, 503, 1866} \subseteq TimestampsOf(kept)
                  /\ TimestampsOf(kept) \cap {485, 504, 1926} = {}

\* morning_1 applied to all seven bars: both bounds kept, both neighbours dropped,
\* the summer bar at 07:06 UTC kept and the one at 08:06 UTC dropped.
C21_Witness ==
    /\ Filtered
    /\ request.window_key = "morning_1"
    /\ TimestampsOf(request.df[1]) = WindowTimestamps
    /\ TimestampsOf(response.result[1]) = {486, 490, 503, 1866}

\* C22: filter_time_window with a key that is not a configured window reports a
\* failure to its caller and does not return the unfiltered bars.
C22_UnknownWindowKeyFails ==
    (Filtered /\ request.window_key \notin TIME_WINDOWS) =>
        /\ response.raised
        /\ response.result # request.df

(***************************************************************************)
(* data/processor.py, get_available_dates.                                  *)
(***************************************************************************)
VALID_DAYS == {"Monday", "Thursday", "Friday"}

DayNameFromSunday(date) ==
    <<"Sunday", "Monday", "Tuesday", "Wednesday", "Thursday", "Friday",
      "Saturday">>[(date % 7) + 1]

\* strftime('%A') of a date; day 0 is a Monday.
DayName(date) ==
    <<"Monday", "Tuesday", "Wednesday", "Thursday", "Friday", "Saturday",
      "Sunday">>[(date % 7) + 1]

\* The while loop of get_available_dates, entered with current and the dates
\* collected so far.
RECURSIVE DatesLoop(_, _, _)
DatesLoop(current, end_date, dates) ==
    IF current <= end_date
    THEN DatesLoop(current + 1, end_date,
                   IF DayName(current) \in VALID_DAYS THEN Append(dates, current)
                   ELSE dates)
    ELSE dates

GetAvailableDates(start_date, end_date) == DatesLoop(start_date, end_date, <<>>)

(***************************************************************************)
(* SpecDates: one get_available_dates call on every pair of start and end   *)
(* date up to MaxCalendarDay, the pairs with start after end included.      *)
(***************************************************************************)
CalendarDays == 0..MaxCalendarDay

DatesInit ==
    /\ sessions = <<>>
    /\ trades = <<>>
    /\ candles = EmptyBag
    /\ \E start_date \in CalendarDays, end_date \in CalendarDays :
          request = [op |-> "get_available_dates", start_date |-> start_date,
                     end_date |-> end_date]
    /\ response = NoResponse
    /\ procs = NoProcs

DatesEnumerate ==
    /\ request.op = "get_available_dates"
    /\ response = NoResponse
    /\ response' = [op |-> "get_available_dates",
                    dates |-> GetAvailableDates(request.start_date, request.end_date)]
    /\ UNCHANGED <<sessions, trades, candles, request, procs>>

DatesNext == DatesEnumerate

SpecDates == DatesInit /\ [][DatesNext]_vars

\* Monday, Thursday and Friday by number, day 0 being a Monday.
OnAllowedWeekday(date) == date % 7 \in {0, 3, 4}

\* C23: get_available_dates(start, end) returns exactly the dates d with
\* start <= d <= end that fall on a Monday, Thursday or Friday, each once, in
\* ascending order, and the empty list when start > end; every call returns.
C23_ValidDateEnumeration ==
    request.op = "get_available_dates" =>
        /\ ENABLED DatesEnumerate \/ response.op = "get_available_dates"
        /\ response.op = "get_available_dates" =>
              LET dates == response.dates IN
              /\ {dates[i] : i \in 1..Len(dates)} =
                    {d \in request.start_date..request.end_date : OnAllowedWeekday(d)}
              /\ \A i, j \in 1..Len(dates) : i < j => dates[i] < dates[j]
              /\ request.start_date > request.end_date => dates = <<>>

\* Seven days with one of each weekday, Tuesday to Monday: the Thursday, the
\* Friday and the Monday come back, in that order.
C23_Witness ==
    /\ response.op = "get_available_dates"
    /\ request.start_date = 1
    /\ request.end_date = 7
    /\ response.dates = <<3, 4, 7>>

(***************************************************************************)
(* data/processor.py, prepare_replay_data.  The date argument is a string,  *)
(* a datetime.date or a datetime.datetime at midnight: a record of its kind *)
(* and its day number.  fetched[tf] is what fetch_and_cache does for        *)
(* timeframe tf when it is handed datetimes.  The result is the dict as a   *)
(* function from its keys to the rows of each DataFrame.                    *)
(***************************************************************************)
EmptyDict == <<>>

DateKinds == {"str", "date", "datetime"}

\* datetime.strptime(date, '%Y-%m-%d').date() for a string.
ParseDate(date) == IF date.kind = "str" THEN [kind |-> "date", day |-> date.day] ELSE date

\* date - timedelta(days=10), date + timedelta(days=1): same kind, another day.
PlusDays(date, days) == [date EXCEPT !.day = @ + days]

\* fetch_and_cache(context_start, context_end, timeframe=tf): start_date is no
\* string, so the next statement reads start_date.tzinfo, which a datetime.date
\* does not have; the AttributeError leaves fetch_and_cache.
FetchAndCacheCall(context_start, context_end, fetch) ==
    IF context_start.kind = "date" THEN Raised ELSE fetch

\* df[df.index.date == date]: the entries of df.index.date are datetime.date, and a
\* datetime.date never equals a datetime.datetime.
OnDate(rows, date) ==
    LET On(row) == date.kind = "date" /\ DateOf(row.timestamp) = date.day
    IN  Returned(SelectSeq(rows, On))

\* df[df.index.date <= date]: ordering a datetime.date against a datetime.datetime
\* raises TypeError.
UpToDate(rows, date) ==
    LET UpTo(row) == DateOf(row.timestamp) <= date.day
    IN  IF date.kind = "datetime" THEN Raised ELSE Returned(SelectSeq(rows, UpTo))

\* The body of the loop for one timeframe whose fetch returned df.
ReplaySlice(tf, df, date, time_window) ==
    IF tf = "3m"
    THEN LET df_date == OnDate(df[1], date)
         IN  Returned(FilterTimeWindow(Some(df_date.value), time_window)[1])
    ELSE UpToDate(df[1], date)

\* The loop over timeframes from position i on, with the dict built so far.
RECURSIVE ReplayLoop(_, _, _, _, _, _)
ReplayLoop(timeframes, i, result, date, time_window, fetched) ==
    IF i > Len(timeframes) THEN Returned(result)
    ELSE LET tf == timeframes[i]
             call == FetchAndCacheCall(PlusDays(date, -10), PlusDays(date, 1), fetched[tf])
         IN  IF call.raised THEN Raised
             ELSE IF ~IsEmpty(call.value)
             THEN LET df_filtered == ReplaySlice(tf, call.value, date, time_window)
                  IN  IF df_filtered.raised THEN Raised
                      ELSE ReplayLoop(timeframes, i + 1, (tf :> df_filtered.value) @@ result,
                                      date, time_window, fetched)
             ELSE ReplayLoop(timeframes, i + 1, result, date, time_window, fetched)

PrepareReplayData(date, time_window, timeframes, fetched) ==
    ReplayLoop(timeframes, 1, EmptyDict, ParseDate(date), time_window, fetched)

(***************************************************************************)
(* SpecReplay: one prepare_replay_data call for day ReplayDate.             *)
(***************************************************************************)
ReplayDate == 2

\* 3m bars of the context range: 08:09 the day before, and 08:03, 08:06 and 08:24
\* of the day itself, a winter day.
ReplayTimestamps3m ==
    {MinutesPerDay + 8 * 60 + 9, 2 * MinutesPerDay + 8 * 60 + 3, 2 * MinutesPerDay + 8 * 60 + 6,
     2 * MinutesPerDay + 8 * 60 + 24}

\* 1h bars of the context range: 08:00 the day before, 08:00 of the day itself and
\* midnight of the day after.
ReplayTimestamps1h ==
    {MinutesPerDay + 8 * 60, 2 * MinutesPerDay + 8 * 60, 3 * MinutesPerDay}

ReplayFrames(S) ==
    {Some([i \in 1..Cardinality(T) |-> WindowBar(Ascending(T)[i])]) : T \in (SUBSET S) \ {{}}}

\* What fetch_and_cache does when it is handed datetimes: it returns None or a
\* DataFrame of bars of the context range.
ReplayFetches(S) == {Returned(None)} \cup {Returned(df) : df \in ReplayFrames(S)}

ReplayTimeframes == {<<"3m">>, <<"1h">>, <<"1h", "3m">>}

ReplayInit ==
    /\ sessions = <<>>
    /\ trades = <<>>
    /\ candles = EmptyBag
    /\ \E timeframes \in ReplayTimeframes, time_window \in {"morning_1", "evening_9"} :
          \E f3 \in ReplayFetches(ReplayTimestamps3m), f1 \in ReplayFetches(ReplayTimestamps1h) :
             \E kind \in DateKinds :
                request = [op |-> "prepare_replay_data",
                           date |-> [kind |-> kind, day |-> ReplayDate],
                           time_window |-> time_window, timeframes |-> timeframes,
                           fetched |-> [tf \in {timeframes[i] : i \in 1..Len(timeframes)} |->
                                           IF tf = "3m" THEN f3 ELSE f1]]
    /\ response = NoResponse
    /\ procs = NoProcs

ReplayPrepare ==
    /\ request.op = "prepare_replay_data"
    /\ response = NoResponse
    /\ LET r == PrepareReplayData(request.date, request.time_window, request.timeframes,
                                  request.fetched)
       IN  response' = [op |-> "prepare_replay_data", result |-> r.value, raised |-> r.raised]
    /\ UNCHANGED <<sessions, trades, candles, request, procs>>

ReplayNext == ReplayPrepare

SpecReplay == ReplayInit /\ [][ReplayNext]_vars

\* The call has run.
Prepared == response.op = "prepare_replay_data"

\* The finest of the requested timeframes.
Finest(timeframes) ==
    CHOOSE tf \in {timeframes[i] : i \in 1..Len(timeframes)} :
        \A i \in 1..Len(timeframes) : Minutes(tf) <= Minutes(timeframes[i])

\* A bar lies on the day, at a London time of day inside the window of the key.
InReplayWindow(row, day, time_window) ==
    /\ row.timestamp \div 1440 = day
    /\ time_window \in TIME_WINDOWS
    /\ TimeWindowTimes[time_window].start <= LocalTimeOfDay(row.timestamp)
    /\ LocalTimeOfDay(row.timestamp) <= TimeWindowTimes[time_window].end

C25_ReplayResultKeys ==
    Prepared =>
        /\ ~response.raised
        /\ \A tf \in DOMAIN response.result : response.result[tf] # <<>>

(***************************************************************************)
(* models/session.py, the derived statistics.  A quotient of the counters   *)
(* is kept exactly, as a numerator over a positive denominator; to_dict     *)
(* rounds it to two places, kept as an integer number of hundredths.        *)
(***************************************************************************)
Ratio(num, den) == [num |-> num, den |-> den]

WinRateFraction(session) ==
    IF session.total_trades = 0 THEN Ratio(0, 1)
    ELSE Ratio(session.winning_trades, session.total_trades)

\* (self.winning_trades / self.total_trades) * 100
WinRate(session) ==
    IF session.total_trades = 0 THEN Ratio(0, 1)
    ELSE Ratio(session.winning_trades * 100, session.total_trades)

\* self.total_pnl / self.total_trades
AveragePnl(session) ==
    IF session.total_trades = 0 THEN Ratio(0, 1)
    ELSE Ratio(session.total_pnl, session.total_trades)

\* round(q, 2) in hundredths: the nearest hundredth (no quotient of the counters
\* below lies halfway between two hundredths unless it is a hundredth itself).
Round2(q) == (2 * 100 * q.num + q.den) \div (2 * q.den)

\* The statistics entries of to_dict.
ToDict(session) ==
    [total_trades |-> session.total_trades,
     winning_trades |-> session.winning_trades,
     losing_trades |-> session.losing_trades,
     scratch_trades |-> session.scratch_trades,
     win_rate |-> Round2(WinRate(session)),
     total_pnl |-> 100 * session.total_pnl,
     average_pnl |-> Round2(AveragePnl(session))]

(***************************************************************************)
(* SpecStats: one session; resolved trades are counted into it one by one  *)
(* and its statistics are read in between.                                  *)
(***************************************************************************)
\* Resolved trades as update_statistics sees them: wins of 54 and 72 points,
\* losses of 18 and 9 points.
StatsTrades ==
    {[outcome |-> "win", pnl_points |-> 54], [outcome |-> "win", pnl_points |-> 72],
     [outcome |-> "loss", pnl_points |-> 0 - 18], [outcome |-> "loss", pnl_points |-> 0 - 9]}

StatsInit ==
    /\ sessions = <<CreateSession(1, 1, "morning_1", <<1>>)>>
    /\ trades = <<>>
    /\ candles = EmptyBag
    /\ request = NoRequest
    /\ response = NoResponse
    /\ procs = NoProcs

\* session.update_statistics(trade)
StatsUpdate(trade) ==
    /\ sessions[1].total_trades < MaxStatTrades
    /\ sessions' = <<UpdateStatistics(sessions[1], trade)>>
    /\ request' = [op |-> "update_statistics", trade |-> trade]
    /\ response' = [op |-> "update_statistics"]
    /\ UNCHANGED <<trades, candles, procs>>

\* session.win_rate, session.average_pnl and session.to_dict()
StatsRead ==
    /\ request.op # "statistics"
    /\ request' = [op |-> "statistics"]
    /\ response' = [op |-> "statistics", win_rate |-> WinRate(sessions[1]),
                    average_pnl |-> AveragePnl(sessions[1]), dict |-> ToDict(sessions[1])]
    /\ UNCHANGED <<sessions, trades, candles, procs>>

StatsNext ==
    \/ \E trade \in StatsTrades : StatsUpdate(trade)
    \/ StatsRead

SpecStats == StatsInit /\ [][StatsNext]_vars

\* The statistics of the session have just been read.
StatsWereRead == response.op = "statistics"

\* The quotient q equals num / den.
Equals(q, num, den) == q.num * den = num * q.den

\* The quotient q lies within tolerance (in hundredths) of the value hundredths / 100.
Within(q, hundredths, tolerance) ==
    /\ 100 * q.num - hundredths * q.den <= tolerance * q.den
    /\ hundredths * q.den - 100 * q.num <= tolerance * q.den

\* The session of the example: 2 wins, 1 loss, total P&L 108 over 3 trades.
ExampleSession(session) ==
    /\ session.total_trades = 3
    /\ session.winning_trades = 2
    /\ session.losing_trades = 1
    /\ session.total_pnl = 108

\* C26: win_rate is winning_trades / total_trades * 100 and average_pnl is
\* total_pnl / total_trades, both 0 for a session without trades; the session with
\* 2 wins, 1 loss and 108 points over 3 trades reports 66.67 (+-0.01) and 36.0.
C26_SessionStatistics ==
    StatsWereRead =>
        LET session == sessions[1] IN
        /\ session.total_trades = 0 =>
              /\ Equals(response.win_rate, 0, 1)
              /\ Equals(response.average_pnl, 0, 1)
              /\ response.dict.win_rate = 0
              /\ response.dict.average_pnl = 0
        /\ session.total_trades > 0 =>
              /\ Equals(response.win_rate, session.winning_trades * 100, session.total_trades)
              /\ Equals(response.average_pnl, session.total_pnl, session.total_trades)
        /\ ExampleSession(session) =>
              /\ Within(response.win_rate, 6667, 1)
              /\ Equals(response.average_pnl, 36, 1)
              /\ response.dict.win_rate = 6667
              /\ response.dict.average_pnl = 3600

C26_Witness == StatsWereRead /\ ExampleSession(sessions[1])

C26_WitnessNoTrades == StatsWereRead /\ sessions[1].total_trades = 0

(***************************************************************************)
(* SpecAdvance: next_scenario requests for one session, served on two       *)
(* threads (app.run serves requests on threads), each request with its own  *)
(* database session.  A step is one database round trip: the SELECT behind  *)
(* Session.query.get, or the UPDATE and COMMIT behind db.session.commit();  *)
(* the database serializes the statements and nothing else orders the       *)
(* requests.                                                                *)
(***************************************************************************)
AdvanceCallers == {1, 2}

IdleRequest == [pc |-> "idle", loaded |-> None, served |-> 0]

\* The UPDATE of a commit: the unit of work writes the attributes whose value in
\* memory differs from the value loaded, with the value in memory, and leaves the
\* other columns of the row alone.
CommitSession(row, loaded, modified) ==
    [f \in DOMAIN row |-> IF modified[f] # loaded[f] THEN modified[f] ELSE row[f]]

AdvanceInit ==
    /\ \E n \in 1..MaxAdvanceDates :
          sessions = <<CreateSession(1, n, "morning_1", [i \in 1..n |-> i])>>
    /\ trades = <<>>
    /\ candles = EmptyBag
    /\ request = NoRequest
    /\ response = NoResponse
    /\ procs = [p \in AdvanceCallers |-> IdleRequest]

\* session = Session.query.get(session_id)
QuerySession(p) ==
    /\ procs[p].pc = "idle"
    /\ procs[p].served < MaxAdvances
    /\ procs' = [procs EXCEPT ![p].pc = "loaded", ![p].loaded = Some(sessions[1])]
    /\ UNCHANGED <<sessions, trades, candles, request, response>>

\* has_next = session.advance_to_next_date(); db.session.commit(); the response.
AdvanceAndCommit(p) ==
    /\ procs[p].pc = "loaded"
    /\ LET loaded == procs[p].loaded[1]
           r == AdvanceToNextDate(loaded)
       IN  /\ sessions' = <<CommitSession(sessions[1], loaded, r.session)>>
           /\ response' = [op |-> "next", status |-> 200, completed |-> ~r.has_next]
    /\ request' = [op |-> "next", session_id |-> 1]
    /\ procs' = [procs EXCEPT ![p].pc = "idle", ![p].loaded = None, ![p].served = @ + 1]
    /\ UNCHANGED <<trades, candles>>

AdvanceNext ==
    \E p \in AdvanceCallers :
        \/ QuerySession(p)
        \/ AdvanceAndCommit(p)

SpecAdvance == AdvanceInit /\ [][AdvanceNext]_vars

\* No request is in flight.
NoAdvanceInFlight == \A p \in AdvanceCallers : procs[p].pc = "idle"

\* The advances committed so far.
AdvancesServed == procs[1].served + procs[2].served

\* C27: when the requests that advance a session have committed, the session
\* reflects every one of them: the cursor has moved by one position per request, or
\* has reached the last playlist entry.
C27_NoLostSessionUpdates ==
    NoAdvanceInFlight =>
        \/ sessions[1].current_date_index = AdvancesServed
        \/ sessions[1].current_date_index = Len(sessions[1].playlist) - 1

\* The index of the last playlist date of a session.
LastIndex(session) == Len(session.playlist) - 1

\* C28 as stated: a session is terminal exactly when its cursor is beyond the
\* index of the last playlist date.
C28_TerminalIffCursorPassedLast ==
    \A id \in DOMAIN sessions :
        sessions[id].is_completed <=> sessions[id].current_date_index > LastIndex(sessions[id])

\* C28, amended: a session is terminal exactly when an advance has been requested
\* for it while its cursor had no later playlist entry to move to; the cursor is
\* never moved beyond the last playlist date.
C28_TerminalAfterAdvanceAtLastEntry ==
    [][/\ \A id \in DOMAIN sessions' :
             sessions'[id].current_date_index <= LastIndex(sessions'[id])
       /\ \A id \in DOMAIN sessions' \ DOMAIN sessions : ~sessions'[id].is_completed
       /\ \A id \in DOMAIN sessions :
             sessions'[id].is_completed <=>
                 \/ sessions[id].is_completed
                 \/ /\ request'.op = "next"
                    /\ request'.session_id = id
                    /\ sessions[id].current_date_index >= LastIndex(sessions[id])]_vars

\* A session of MaxDates dates was advanced to its last date and then completed.
C28_Witness ==
    /\ response.op = "next"
    /\ response.status = 200
    /\ response.completed
    /\ \E id \in DOMAIN sessions :
          /\ request.session_id = id
          /\ sessions[id].is_completed
          /\ Len(sessions[id].playlist) = MaxDates
          /\ sessions[id].current_date_index = LastIndex(sessions[id])

\* C29: a request to resolve the outcome of a trade whose outcome is already win
\* or loss is answered with an error.
C29_ResolvingTerminalTradeFails ==
    [][(/\ request'.op = "outcome"
        /\ request'.trade_id \in DOMAIN trades
        /\ trades[request'.trade_id].outcome \in {"win", "loss"})
          => response'.status >= 400]_vars

\* C30: a trade's outcome is unset, 'win' or 'loss' in every reachable state, and
\* every session's scratch_trades counter is 0.
C30_EvaluatorOutcomeDomain ==
    /\ \A id \in DOMAIN trades : trades[id].outcome \in {NoOutcome, "win", "loss"}
    /\ \A id \in DOMAIN sessions : sessions[id].scratch_trades = 0

\* Both a win and a loss have been evaluated and counted into the session.
C30_Witness ==
    /\ \E id \in DOMAIN trades : trades[id].outcome = "win"
    /\ \E id \in DOMAIN trades : trades[id].outcome = "loss"
    /\ \E id \in DOMAIN sessions :
          /\ sessions[id].winning_trades = 1
          /\ sessions[id].losing_trades = 1
          /\ sessions[id].total_trades = 2

\* The call of the step finds bars in the cache and is allowed to use them.
HitsCache(req) ==
    /\ ~req.force_refresh
    /\ ~IsEmpty(GetCachedData(candles, req.start_date, req.end_date, req.timeframe))

\* C31: one fetch_and_cache call invokes the provider at most once, whether the
\* provider returns bars, returns nothing or fails, and not at all on a cache hit.
C31_NoAutomaticRetry ==
    [][request'.op = "fetch_and_cache" =>
          /\ Len(response'.provider) <= 1
          /\ HitsCache(request') => response'.provider = <<>>]_vars

\* A call whose one download failed and was not repeated.
C31_Witness ==
    /\ request.op = "fetch_and_cache"
    /\ Len(response.provider) = 1
    /\ response.provider[1].raised
    /\ response.returned = None

\* A call served from the cache without any download.
C31_WitnessCacheHit ==
    /\ request.op = "fetch_and_cache"
    /\ ~request.force_refresh
    /\ response.provider = <<>>
    /\ response.returned # None

\* The first k candles of a list, and the candles after them.
Prefix(cs, k) == SubSeq(cs, 1, k)
Suffix(cs, k) == SubSeq(cs, k + 1, Len(cs))

\* Two trades left the market the same way.
SameExit(a, b) ==
    /\ a.outcome = b.outcome
    /\ a.exit_price = b.exit_price
    /\ a.exit_timestamp = b.exit_timestamp

\* C32: for a fresh pending trade and a candle list S extended by later candles T:
\* if S resolves the trade, S followed by T gives the same outcome, exit price and
\* exit timestamp; if S leaves it pending, evaluating S followed by T afterwards
\* gives what T alone gives; and a second evaluation on the same candles agrees
\* with the first.
C32_StableUnderLongerSequences ==
    response.op = "determine_outcome" =>
        LET fresh == response.before
            cs == request.candles
        IN  /\ DetermineOutcome(fresh, cs).trade = trades[1]
            /\ DetermineOutcome(fresh, cs).result = response.result
            /\ \A k \in 0..Len(cs) :
                  LET s == DetermineOutcome(fresh, Prefix(cs, k)) IN
                  IF OutcomeDetermined(s.trade)
                  THEN SameExit(trades[1], s.trade)
                  ELSE /\ s.trade = fresh
                       /\ DetermineOutcome(s.trade, cs).trade =
                             DetermineOutcome(fresh, Suffix(cs, k)).trade
                       /\ DetermineOutcome(s.trade, cs).result =
                             DetermineOutcome(fresh, Suffix(cs, k)).result

\* MaxBars candles were evaluated; the first leaves the trade pending, the second
\* resolves it, and the last would have resolved it the other way.
C32_Witness ==
    /\ response.op = "determine_outcome"
    /\ Len(request.candles) = MaxBars
    /\ MaxBars >= 3
    /\ ~OutcomeDetermined(DetermineOutcome(response.before, Prefix(request.candles, 1)).trade)
    /\ OutcomeDetermined(DetermineOutcome(response.before, Prefix(request.candles, 2)).trade)
    /\ OutcomeDetermined(DetermineOutcome(response.before, Suffix(request.candles, MaxBars - 1)).trade)
    /\ DetermineOutcome(response.before, Suffix(request.candles, MaxBars - 1)).trade.outcome
          # trades[1].outcome

\* C33: the number a cache_data call returns is the number of rows the call added
\* to the store; it is 0 when every key exists already and when the batch insert
\* fails and is rolled back.
C33_InsertCountIsTruthful ==
    [][request'.op = "cache_data" =>
          response'.cached_count = BagCardinality(candles') - BagCardinality(candles)]_vars

\* A candle carries the values of one of the rows.
ValuesOf(c, rows) ==
    \E i \in 1..Len(rows) :
        /\ c.open = rows[i].Open
        /\ c.high = rows[i].High
        /\ c.low = rows[i].Low
        /\ c.close = rows[i].Close
        /\ c.volume = rows[i].Volume

\* The call with response resp returned, or left in the store under the tag, a bar
\* with the values of a downloaded base bar.
YieldsBaseBars(resp, store, tag) ==
    LET rows == resp.provider[1].rows IN
    \/ /\ resp.returned # None
       /\ \E i \in 1..Len(resp.returned[1]) : ValuesOf(FromSeries(resp.returned[1][i], tag), rows)
    \/ \E c \in BagToSet(store) : c.timeframe = tag /\ ValuesOf(c, rows)

\* C34: unless 5m bars are served for a 3m request, a call whose base interval is
\* coarser than the requested timeframe neither returns nor stores, under the
\* requested tag, bars with the values of the base bars.
C34_NoSilentSubstitution ==
    [][(/\ request'.op = "fetch_and_cache"
        /\ response'.provider # <<>>
        /\ request'.timeframe \in DOMAIN TimeframeMap
        /\ Minutes(response'.provider[1].interval) > Minutes(request'.timeframe)
        /\ ~(request'.timeframe = "3m" /\ response'.provider[1].interval = "5m"))
          => ~YieldsBaseBars(response', candles', request'.timeframe)]_vars

\* The trades of a session with a given outcome, as positions in the trade table.
TradesWith(id, outcome) ==
    {i \in DOMAIN trades : trades[i].session_id = id /\ trades[i].outcome = outcome}

\* The sum of pnl_points over the trades at the positions of I.
RECURSIVE PnlOver(_)
PnlOver(I) ==
    IF I = {} THEN 0
    ELSE LET i == CHOOSE j \in I : TRUE IN trades[i].pnl_points + PnlOver(I \ {i})

\* C35: after any sequence of start, enter-trade, outcome and advance requests that
\* do not overlap, every session has total_trades = winning_trades + losing_trades
\* + scratch_trades, winning_trades and losing_trades equal to the number of its
\* trades with that outcome, and total_pnl equal to the sum of pnl_points over its
\* resolved trades.
C35_StatisticsMatchTrades ==
    \A id \in DOMAIN sessions :
        LET session == sessions[id] IN
        /\ session.total_trades =
              session.winning_trades + session.losing_trades + session.scratch_trades
        /\ session.winning_trades = Cardinality(TradesWith(id, "win"))
        /\ session.losing_trades = Cardinality(TradesWith(id, "loss"))
        /\ session.total_pnl = PnlOver(TradesWith(id, "win") \cup TradesWith(id, "loss"))

\* A session with a winning and a losing trade, each asked for its outcome once
\* more after it was resolved.
C35_Witness ==
    /\ response.op = "outcome"
    /\ response.branch = "determined"
    /\ \E id \in DOMAIN sessions :
          /\ Cardinality(TradesWith(id, "win")) = 1
          /\ Cardinality(TradesWith(id, "loss")) = 1
          /\ sessions[id].total_trades = 2
          /\ sessions[id].total_pnl = STOP_LOSS_POINTS * RISK_REWARD_RATIO - STOP_LOSS_POINTS

(***************************************************************************)
(* SpecResolve: two outcome requests for one pending trade, served on two   *)
(* threads, each with its own database session.  A step is one database     *)
(* round trip or the replay preparation: the SELECT behind Trade.query.get, *)
(* prepare_replay_data with the evaluation that follows it in memory, the   *)
(* SELECT behind the lazy trade.session, and the UPDATEs and COMMIT behind   *)
(* db.session.commit().  prepare_replay_data raises as described at         *)
(* PrepareOutcomes; its other outcomes are the slices the rest of the       *)
(* handler is written for.                                                  *)
(***************************************************************************)
Resolvers == {1, 2}

IdleResolver ==
    [pc |-> "idle", branch |-> "none", loaded |-> None, trade |-> None, session |-> None]

\* A request that has answered, with the branch it took.
Answered(branch) ==
    [pc |-> "answered", branch |-> branch, loaded |-> None, trade |-> None, session |-> None]

\* The UPDATE of a commit for one row: the attributes changed in memory are
\* written with their value in memory, the other columns are left alone.
CommitRow(row, loaded, modified) ==
    [f \in DOMAIN row |-> IF modified[f] # loaded[f] THEN modified[f] ELSE row[f]]

ResolveInit ==
    /\ sessions = <<CreateSession(1, 1, "morning_1", <<1>>)>>
    /\ trades = <<EnterTradeCreate(1, 0, "long", 100)>>
    /\ candles = EmptyBag
    /\ request = NoRequest
    /\ response = NoResponse
    /\ procs = [p \in Resolvers |-> IdleResolver]

\* trade = Trade.query.get(trade_id), and the return when its outcome is set.
QueryTrade(p) ==
    /\ procs[p].pc = "idle"
    /\ request' = [op |-> "outcome", trade_id |-> 1, has_params |-> TRUE]
    /\ IF OutcomeDetermined(trades[1])
       THEN /\ procs' = [procs EXCEPT ![p] = Answered("determined")]
            /\ response' = [op |-> "outcome", status |-> 200, branch |-> "determined"]
       ELSE /\ procs' = [procs EXCEPT ![p].pc = "pending", ![p].loaded = Some(trades[1])]
            /\ UNCHANGED response
    /\ UNCHANGED <<sessions, trades, candles>>

\* prepare_replay_data, the candles after the entry and determine_outcome on the
\* trade in memory; the commit of a request whose trade stays pending writes
\* nothing.
PrepareAndEvaluate(p, prepared) ==
    /\ procs[p].pc = "pending"
    /\ LET trade == procs[p].loaded[1]
           candles_after == CandlesAfter(trade, prepared.df)
           r == DetermineOutcome(trade, candles_after)
       IN  IF prepared.raised
           THEN /\ procs' = [procs EXCEPT ![p] = Answered("error")]
                /\ response' = [op |-> "outcome", status |-> 500, branch |-> "error"]
           ELSE IF prepared.df = <<>>
           THEN /\ procs' = [procs EXCEPT ![p] = Answered("no_data")]
                /\ response' = [op |-> "outcome", status |-> 404, branch |-> "no_data"]
           ELSE IF candles_after = <<>>
           THEN /\ procs' = [procs EXCEPT ![p] = Answered("no_candles")]
                /\ response' = [op |-> "outcome", status |-> 200, branch |-> "no_candles"]
           ELSE IF OutcomeDetermined(r.trade)
           THEN /\ procs' = [procs EXCEPT ![p].pc = "evaluated", ![p].trade = Some(r.trade)]
                /\ UNCHANGED response
           ELSE /\ procs' = [procs EXCEPT ![p] = Answered("evaluated")]
                /\ response' = [op |-> "outcome", status |-> 200, branch |-> "evaluated"]
    /\ UNCHANGED <<sessions, trades, candles, request>>

\* session = trade.session: the relationship is loaded when it is first read.
LoadSession(p) ==
    /\ procs[p].pc = "evaluated"
    /\ procs' = [procs EXCEPT ![p].pc = "loaded", ![p].session = Some(sessions[1])]
    /\ UNCHANGED <<sessions, trades, candles, request, response>>

\* session.update_statistics(trade); db.session.commit(); the response.
UpdateAndCommit(p) ==
    /\ procs[p].pc = "loaded"
    /\ LET me == procs[p] IN
          /\ trades' = <<CommitRow(trades[1], me.loaded[1], me.trade[1])>>
          /\ sessions' = <<CommitRow(sessions[1], me.session[1],
                                     UpdateStatistics(me.session[1], me.trade[1]))>>
    /\ procs' = [procs EXCEPT ![p] = Answered("resolved")]
    /\ response' = [op |-> "outcome", status |-> 200, branch |-> "evaluated"]
    /\ UNCHANGED <<candles, request>>

ResolveNext ==
    \E p \in Resolvers :
        \/ QueryTrade(p)
        \/ \E prepared \in PrepareOutcomes : PrepareAndEvaluate(p, prepared)
        \/ LoadSession(p)
        \/ UpdateAndCommit(p)

SpecResolve == ResolveInit /\ [][ResolveNext]_vars

\* Both requests have answered, and both found the trade pending and resolved it:
\* both passed the check of the outcome before either committed.
BothResolved == \A p \in Resolvers : procs[p].branch = "resolved"

C37_CursorBoundsAndMonotonicity ==
    [][\A id \in DOMAIN sessions' :
          /\ 0 <= sessions'[id].current_date_index
          /\ sessions'[id].current_date_index <= LastIndex(sessions'[id])
          /\ id \in DOMAIN sessions =>
                /\ sessions'[id].current_date_index >= sessions[id].current_date_index
                /\ sessions'[id].playlist = sessions[id].playlist
                /\ sessions[id].is_completed =>
                      /\ sessions'[id].is_completed
                      /\ sessions'[id].current_date_index = sessions[id].current_date_index]_vars

(***************************************************************************)
(* SpecRepeat: start, advance and enter-trade requests, one after the       *)
(* other, with a client that keeps sending advance requests for session 1   *)
(* among them.                                                              *)
(***************************************************************************)
RepeatNext ==
    \/ \E dates \in Playlists, time_window \in TimeWindowInputs :
          StartSession(dates, time_window)
    \/ \E session_id \in SessionIdInputs : NextScenario(session_id)
    \/ \E e \in EnterInputs : EnterTrade(e[1], e[2], e[3], e[4])

SpecRepeat == Init /\ [][RepeatNext]_vars /\ WF_vars(NextScenario(1))

\* The step is an advance request for an existing session.
AdvanceOf(id) ==
    /\ request'.op = "next"
    /\ request'.session_id = id
    /\ response'.op = "next"
    /\ response'.status = 200

\* C38: an advance request for a session whose cursor is before the last playlist
\* date moves the cursor by one and reports not completed; an advance request with
\* the cursor on the last date reports completed and sets is_completed; the other
\* requests leave the cursor alone, so the n-th advance request of a session of n
\* dates is the one that completes it, and repeated advancing completes it.
C38_SessionsEventuallyComplete ==
    /\ [][\A id \in DOMAIN sessions :
             IF AdvanceOf(id)
             THEN IF sessions[id].current_date_index < LastIndex(sessions[id])
                  THEN /\ sessions'[id].current_date_index = sessions[id].current_date_index + 1
                       /\ ~response'.completed
                       /\ sessions'[id].is_completed = sessions[id].is_completed
                  ELSE /\ sessions'[id].current_date_index = sessions[id].current_date_index
                       /\ response'.completed
                       /\ sessions'[id].is_completed
             ELSE /\ sessions'[id].current_date_index = sessions[id].current_date_index
                  /\ sessions'[id].is_completed = sessions[id].is_completed]_vars
    /\ [][\A id \in DOMAIN sessions' \ DOMAIN sessions :
             /\ sessions'[id].current_date_index = 0
             /\ ~sessions'[id].is_completed]_vars
    /\ (Len(sessions) >= 1) ~> (Len(sessions) >= 1 /\ sessions[1].is_completed)

\* A session of MaxDates dates has answered its MaxDates-th advance request:
\* completed, with the cursor on the last date and no trade entered.
C38_Witness ==
    /\ request.op = "next"
    /\ response.op = "next"
    /\ response.status = 200
    /\ response.completed
    /\ trades = <<>>
    /\ Len(sessions[request.session_id].playlist) = MaxDates
    /\ sessions[request.session_id].current_date_index = MaxDates - 1
    /\ sessions[request.session_id].is_completed

\* C39: no fetch_and_cache call, whether it hits the cache, writes back after a
\* miss or re-fetches under force_refresh, removes a stored row or stores a row
\* under a (timestamp, timeframe) key that is stored already: the values of a
\* stored key stay as first written.
C39_StoreIsAppendOnly ==
    [][/\ candles \sqsubseteq candles'
       /\ \A c \in BagToSet(candles') :
             Exists(candles, c.timestamp, c.timeframe) =>
                /\ BagIn(c, candles)
                /\ CopiesIn(c, candles') = CopiesIn(c, candles)]_vars

\* A force_refresh call for 3m downloaded 1m bars and returned the 3m bars made of
\* them, while the key of the first of them still holds the 5m bar an earlier call
\* stored under the 3m tag.
C39_Witness ==
    /\ request.op = "fetch_and_cache"
    /\ request.force_refresh
    /\ request.timeframe = "3m"
    /\ response.provider # <<>>
    /\ response.returned # None
    /\ \E c \in BagToSet(candles) :
          /\ c.timeframe = "3m"
          /\ c.timestamp = response.returned[1][1].timestamp
          /\ c.volume # response.returned[1][1].Volume
    /\ RowsFor(candles, response.returned[1][1].timestamp, "3m") = 1

\* The outcome request ended with an error or without candles to evaluate.
EndedWithoutEvaluation(resp) == resp.status >= 400 \/ resp.branch = "no_candles"

\* C40: an outcome request that ends with an error or without resolution (unknown
\* trade id, missing date or time_window, a failing or empty replay, or no bar
\* strictly after the entry timestamp) leaves every trade and every session as it
\* was; a trade or a session changes only when bars strictly after the trade's
\* entry timestamp were evaluated.
C40_FailedOutcomeRequestsChangeNothing ==
    [][request'.op = "outcome" =>
          /\ EndedWithoutEvaluation(response') => trades' = trades /\ sessions' = sessions
          /\ (trades' # trades \/ sessions' # sessions) =>
                /\ response'.branch = "evaluated"
                /\ \A i \in 1..Len(response'.scanned) :
                      response'.scanned[i].timestamp >
                          trades[request'.trade_id].entry_timestamp]_vars

\* The outcome request for a pending trade failed in the replay preparation: the
\* trade is still pending and its session has counted nothing.
C40_Witness ==
    /\ request.op = "outcome"
    /\ response.status = 500
    /\ trades[request.trade_id].outcome = NoOutcome
    /\ trades[request.trade_id].exit_price = None
    /\ sessions[trades[request.trade_id].session_id].total_trades = 0

\* The outcome request for a pending trade found no bar after the entry.
C40_WitnessNoCandles ==
    /\ request.op = "outcome"
    /\ response.branch = "no_candles"
    /\ trades[request.trade_id].outcome = NoOutcome
    /\ trades[request.trade_id].entry_timestamp > 0

====
